---------------------------- MODULE Spec2Model ----------------------------
(***************************************************************************)
(* A model of panga, a genetic-algorithm engine: the bit-addressable       *)
(* BitVector, the Genome layout, the Chromosome operators, the Population  *)
(* and the GeneticAlgorithm loop.                                          *)
(*                                                                         *)
(* A BitVector is a record [bytes_, bit_count_]; bytes_ is a sequence of   *)
(* bytes (0..255) and byte index i of the C++ vector is element i+1 here.  *)
(* Integers are laid out little-endian, as on the machines the tests run   *)
(* on.  A read or write one byte past an array is an access to the         *)
(* adjacent byte of memory; that byte's value is drawn from AdjacentBytes. *)
(***************************************************************************)
EXTENDS Integers, Sequences, FiniteSets

VARIABLES
    pc,         \* position of the driver: which call has just returned
    args,       \* the inputs of the calls under way
    bv,         \* the BitVector the calls act on ("this")
    pre,        \* bv as it was before the last mutating call
    rhs,        \* a second BitVector: the operand or the destination of a call
    ret,        \* the value the last call returned
    genome,     \* the Genome: genes_, boolean_gene_count_, first_boolean_gene_bit_index_
    offspring,  \* the Chromosome a crossover writes
    population, \* a Population: individuals_ and sorted_indices_
    ga          \* the GeneticAlgorithm: generation, configuration, both populations

\* The variables of the Genome, Chromosome, Population and GeneticAlgorithm.
gaVars == <<genome, offspring, population, ga>>

vars == <<pc, args, bv, pre, rhs, ret, genome, offspring, population, ga>>

\* No Genome has been built and no GeneticAlgorithm exists: the state of a
\* program that works on BitVectors alone.
NoGeneticAlgorithm ==
    /\ genome = [genes_ |-> <<>>, boolean_gene_count_ |-> 0,
                 first_boolean_gene_bit_index_ |-> 0]
    /\ offspring = [bytes_ |-> <<>>, bit_count_ |-> 0]
    /\ population = [individuals_ |-> <<>>, partial_sums_ |-> <<>>, sorted_indices_ |-> <<>>,
                     is_sorted_ |-> FALSE]
    /\ ga = [currentGeneration |-> 0]

---------------------------------------------------------------------------
(* Bytes and bit operations on std::byte.                                  *)

BitsPerByte == 8

MaxByteValue == 255

Pow2(n) == 2^n

\* Bit i (0 = least significant) of byte or integer b.
BitOf(b, i) == (b \div Pow2(i)) % 2

\* std::byte operator>> and operator<<: the result is truncated to a byte.
Shr(b, k) == b \div Pow2(k)

Shl(b, k) == (b * Pow2(k)) % 256

And(a, b) ==
    BitOf(a, 0) * BitOf(b, 0) + 2 * BitOf(a, 1) * BitOf(b, 1)
    + 4 * BitOf(a, 2) * BitOf(b, 2) + 8 * BitOf(a, 3) * BitOf(b, 3)
    + 16 * BitOf(a, 4) * BitOf(b, 4) + 32 * BitOf(a, 5) * BitOf(b, 5)
    + 64 * BitOf(a, 6) * BitOf(b, 6) + 128 * BitOf(a, 7) * BitOf(b, 7)

Not(a) == MaxByteValue - a

\* a | b == ~(~a & ~b)
Or(a, b) == Not(And(Not(a), Not(b)))

\* a ^ b == (a | b) & ~(a & b)
Xor(a, b) == And(Or(a, b), Not(And(a, b)))

\* Element at C++ index i of an array.
At(mem, i) == mem[i + 1]

Put(mem, i, v) == [mem EXCEPT ![i + 1] = v]

Min(a, b) == IF a < b THEN a ELSE b

Max(a, b) == IF a > b THEN a ELSE b

---------------------------------------------------------------------------
(* BitVector::WriteBytes, the bit-range copy.                              *)

\* CopyLoop advancing by the larger of the two free-bit counts.
RECURSIVE CopyLoopMax(_, _, _, _, _, _)
CopyLoopMax(source, source_start_bit_offset, destination, destination_start_bit_offset, bits_to_copy, bits_written) ==
    IF bits_written >= bits_to_copy THEN destination
    ELSE
        LET source_byte_index ==
                (source_start_bit_offset + bits_written) \div BitsPerByte
            source_bit_offset ==
                (source_start_bit_offset + bits_written) % BitsPerByte
            destination_byte_index ==
                (destination_start_bit_offset + bits_written) \div BitsPerByte
            destination_bit_offset ==
                (destination_start_bit_offset + bits_written) % BitsPerByte
            shifted == Shl(Shr(At(source, source_byte_index), source_bit_offset),
                           destination_bit_offset)
            written == Put(destination, destination_byte_index,
                           Or(At(destination, destination_byte_index), shifted))
        IN  CopyLoopMax(source, source_start_bit_offset, written,
                        destination_start_bit_offset, bits_to_copy,
                        bits_written + Max(BitsPerByte - source_bit_offset,
                                           BitsPerByte - destination_bit_offset))

\* The while loop of the slow path: copy bits until bits_to_copy are written.
RECURSIVE CopyLoop(_, _, _, _, _, _)
CopyLoop(source, source_start_bit_offset, destination, destination_start_bit_offset, bits_to_copy, bits_written) ==
    IF bits_written >= bits_to_copy THEN destination
    ELSE
        LET source_byte_index ==
                (source_start_bit_offset + bits_written) \div BitsPerByte
            source_bit_offset ==
                (source_start_bit_offset + bits_written) % BitsPerByte
            destination_byte_index ==
                (destination_start_bit_offset + bits_written) \div BitsPerByte
            destination_bit_offset ==
                (destination_start_bit_offset + bits_written) % BitsPerByte
            shifted == Shl(Shr(At(source, source_byte_index), source_bit_offset),
                           destination_bit_offset)
            written == Put(destination, destination_byte_index,
                           Or(At(destination, destination_byte_index), shifted))
        IN  CopyLoop(source, source_start_bit_offset, written,
                     destination_start_bit_offset, bits_to_copy,
                     bits_written + Min(BitsPerByte - source_bit_offset,
                                        BitsPerByte - destination_bit_offset))

\* memcpy(destination + first, source + from, count)
MemCpy(destination, first, source, from, count) ==
    [i \in DOMAIN destination |->
        IF i - 1 >= first /\ i - 1 < first + count
        THEN At(source, from + (i - 1 - first))
        ELSE destination[i]]

\* memset(destination + first, 0, count)
MemSetZero(destination, first, count) ==
    [i \in DOMAIN destination |->
        IF i - 1 >= first /\ i - 1 < first + count THEN 0 ELSE destination[i]]

\* The last step of WriteBytes: put back the bits of the last byte that lie at
\* or after the end of the copied range.
RestoreLastByte(destination, destination_last_byte_index, destination_last_byte_bit_index, last_byte) ==
    LET mask == Shl(MaxByteValue, destination_last_byte_bit_index)
    IN  Put(destination, destination_last_byte_index,
            Or(And(At(destination, destination_last_byte_index), Not(mask)),
               And(last_byte, mask)))

\* RestoreFirstByte that leaves the zeroed first byte as the loop left it.
RestoreFirstByteSkipped(destination, destination_first_byte_index, destination_first_byte_bit_index, first_byte) ==
    destination

\* On the slow path: put back the bits of the first byte that lie before the
\* start of the copied range.
RestoreFirstByte(destination, destination_first_byte_index, destination_first_byte_bit_index, first_byte) ==
    Put(destination, destination_first_byte_index,
        Or(At(destination, destination_first_byte_index),
           And(first_byte,
               Shr(MaxByteValue, BitsPerByte - destination_first_byte_bit_index))))

WriteBytes(source, source_start_bit_offset, destination, destination_start_bit_offset, bits_to_copy) ==
    LET destination_first_byte_index ==
            destination_start_bit_offset \div BitsPerByte
        destination_last_byte_index ==
            (destination_start_bit_offset + bits_to_copy) \div BitsPerByte
        last_byte == At(destination, destination_last_byte_index)
        byte_count ==
            destination_last_byte_index - destination_first_byte_index + 1
        copied ==
            IF source_start_bit_offset % BitsPerByte = 0
               /\ destination_start_bit_offset % BitsPerByte = 0
            THEN MemCpy(destination, destination_first_byte_index, source,
                        source_start_bit_offset \div BitsPerByte, byte_count)
            ELSE
                LET first_byte == At(destination, destination_first_byte_index)
                    zeroed == MemSetZero(destination,
                                         destination_first_byte_index, byte_count)
                    looped == CopyLoop(source, source_start_bit_offset, zeroed,
                                       destination_start_bit_offset,
                                       bits_to_copy, 0)
                IN  RestoreFirstByte(looped, destination_first_byte_index,
                                     destination_start_bit_offset % BitsPerByte,
                                     first_byte)
    IN  RestoreLastByte(copied, destination_last_byte_index,
                        (destination_start_bit_offset + bits_to_copy)
                            % BitsPerByte,
                        last_byte)

---------------------------------------------------------------------------
(* Integers as byte arrays (reinterpret_cast<std::byte*>(&value)).         *)

\* The bytes of an integer of int_bytes bytes, least significant first.
IntToBytes(value, int_bytes) ==
    [i \in 1..int_bytes |-> (value \div Pow2(BitsPerByte * (i - 1))) % 256]

RECURSIVE BytesToInt(_, _)
BytesToInt(bytes, int_bytes) ==
    IF int_bytes = 0 THEN 0
    ELSE bytes[int_bytes] * Pow2(BitsPerByte * (int_bytes - 1))
         + BytesToInt(bytes, int_bytes - 1)

\* An array followed by the byte of memory that lies after it.
WithAdjacent(bytes, adjacent_byte) == bytes \o <<adjacent_byte>>

\* |adjacent| is the pair <<byte after the source, byte after the destination>>.
\* BitVector::WriteInt<IntegerType>: the new contents of |bytes|.
WriteInt(bytes, start_bit_index, bits_to_copy, value, int_bytes, adjacent) ==
    SubSeq(WriteBytes(WithAdjacent(IntToBytes(value, int_bytes), adjacent[1]), 0,
                      WithAdjacent(bytes, adjacent[2]), start_bit_index,
                      bits_to_copy),
           1, Len(bytes))

\* BitVector::ReadInt<IntegerType>: IntegerType value = 0, filled by WriteBytes.
ReadInt(bytes, start_bit_index, bits_to_copy, int_bytes, adjacent) ==
    BytesToInt(WriteBytes(WithAdjacent(bytes, adjacent[1]), start_bit_index,
                          WithAdjacent(IntToBytes(0, int_bytes), adjacent[2]), 0,
                          bits_to_copy),
               int_bytes)

---------------------------------------------------------------------------
(* BitVector.                                                              *)

BytesNeeded(bit_count) ==
    (bit_count \div BitsPerByte)
    + (IF bit_count % BitsPerByte # 0 THEN 1 ELSE 0)

\* std::vector::resize to a larger size value-initializes the new bytes.
Resize(v, bit_count) ==
    LET new_bytes_count == BytesNeeded(bit_count)
    IN  [bytes_ |-> IF Len(v.bytes_) < new_bytes_count
                    THEN v.bytes_ \o [i \in 1..(new_bytes_count - Len(v.bytes_)) |-> 0]
                    ELSE v.bytes_,
         bit_count_ |-> bit_count]

Clear(v) == [v EXCEPT !.bytes_ = [i \in DOMAIN v.bytes_ |-> 0]]

SetBitCount(v, bit_count) == Clear(Resize(v, bit_count))

\* BitVector::BitVector(size_t bit_count)
NewBitVector(bit_count) ==
    SetBitCount([bytes_ |-> <<>>, bit_count_ |-> 0], bit_count)

Clip(v, bit_count) == [v EXCEPT !.bit_count_ = bit_count]

Get(v, index) ==
    And(At(v.bytes_, index \div BitsPerByte), Shl(1, index % BitsPerByte)) # 0

Set(v, index) ==
    [v EXCEPT !.bytes_ =
        Put(v.bytes_, index \div BitsPerByte,
            Or(At(v.bytes_, index \div BitsPerByte),
               Shl(1, index % BitsPerByte)))]

Unset(v, index) ==
    [v EXCEPT !.bytes_ =
        Put(v.bytes_, index \div BitsPerByte,
            And(At(v.bytes_, index \div BitsPerByte),
                Not(Shl(1, index % BitsPerByte))))]

Flip(v, index) ==
    [v EXCEPT !.bytes_ =
        Put(v.bytes_, index \div BitsPerByte,
            Xor(At(v.bytes_, index \div BitsPerByte),
                Shl(1, index % BitsPerByte)))]

\* BitVector::SetInt<IntegerType>
SetInt(v, value, bit_index, bit_width, int_bytes, adjacent) ==
    [v EXCEPT !.bytes_ =
        WriteInt(v.bytes_, bit_index, bit_width, value, int_bytes, adjacent)]

\* BitVector::GetInt<IntegerType>
GetInt(v, bit_index, bit_width, int_bytes, adjacent) ==
    ReadInt(v.bytes_, bit_index, bit_width, int_bytes, adjacent)

\* BitVector::operator=: the first rhs.bytes_.size() bytes are copied.
Assign(v, rhs_v) ==
    LET resized == Resize(v, rhs_v.bit_count_)
    IN  [resized EXCEPT !.bytes_ =
            [i \in DOMAIN resized.bytes_ |->
                IF i <= Len(rhs_v.bytes_) THEN rhs_v.bytes_[i]
                ELSE resized.bytes_[i]]]

\* BitVector::SubVector: the destination after the copy out of |v|.
SubVector(v, destination, destination_start_bit_offset, source_start_bit_offset, bits_to_copy, adjacent) ==
    LET resized == Resize(destination, destination_start_bit_offset + bits_to_copy)
    IN  [resized EXCEPT !.bytes_ =
            SubSeq(WriteBytes(WithAdjacent(v.bytes_, adjacent[1]),
                              source_start_bit_offset,
                              WithAdjacent(resized.bytes_, adjacent[2]),
                              destination_start_bit_offset, bits_to_copy),
                   1, Len(resized.bytes_))]

\* CountSetBits: the table holds the number of bits set in each byte value.
CountSetBits(val) ==
    BitOf(val, 0) + BitOf(val, 1) + BitOf(val, 2) + BitOf(val, 3)
    + BitOf(val, 4) + BitOf(val, 5) + BitOf(val, 6) + BitOf(val, 7)

\* Width of size_t in the model; size_t arithmetic wraps modulo 2^SizeBits.
SizeBits == 16

\* std::numeric_limits<size_t>::max()
SizeMax == Pow2(SizeBits) - 1

\* The for loop of HammingDistance over the bytes before last_byte.
RECURSIVE FullByteDistance(_, _, _)
FullByteDistance(left, right, last_byte) ==
    IF last_byte = 0 THEN 0
    ELSE CountSetBits(Xor(left[last_byte], right[last_byte]))
         + FullByteDistance(left, right, last_byte - 1)

\* HammingDistance counting the whole of the last byte.
HammingDistanceUnmasked(v, rhs_v) ==
    IF v.bit_count_ # rhs_v.bit_count_ THEN SizeMax
    ELSE FullByteDistance(v.bytes_, rhs_v.bytes_, BytesNeeded(v.bit_count_))

HammingDistance(v, rhs_v) ==
    IF v.bit_count_ # rhs_v.bit_count_ THEN SizeMax
    ELSE
        LET last_byte == v.bit_count_ \div BitsPerByte
            relevant_bits == v.bit_count_ % BitsPerByte
            mask == Shr(MaxByteValue, BitsPerByte - relevant_bits)
        IN  FullByteDistance(v.bytes_, rhs_v.bytes_, last_byte)
            + (IF relevant_bits > 0
               THEN CountSetBits(Xor(And(At(v.bytes_, last_byte), mask),
                                     And(At(rhs_v.bytes_, last_byte), mask)))
               ELSE 0)

\* BitVector::Compare: memcmp of the full bytes, then the masked last byte.
Compare(left, right, bits_to_compare) ==
    LET bytes_to_compare == bits_to_compare \div BitsPerByte
        bits_remaining == bits_to_compare % BitsPerByte
        mask == Shr(MaxByteValue, BitsPerByte - bits_remaining)
    IN  /\ \A i \in 1..bytes_to_compare : left[i] = right[i]
        /\ \/ bits_remaining = 0
           \/ Xor(And(At(left, bytes_to_compare), mask),
                  And(At(right, bytes_to_compare), mask)) = 0

\* BitVector::Equals(rhs): compares the bits of |v|.
Equals(v, rhs_v) == Compare(v.bytes_, rhs_v.bytes_, v.bit_count_)

---------------------------------------------------------------------------
(* Text codecs.  A string is a sequence of one-character strings.          *)

HexDigits == <<"0", "1", "2", "3", "4", "5", "6", "7", "8", "9", "a", "b", "c", "d", "e", "f">>

\* snprintf(buffer, 3, "%02hhx", byte)
FormatHexByte(byte) ==
    <<HexDigits[(byte \div 16) + 1], HexDigits[(byte % 16) + 1]>>

HexDigitValue(ch) == (CHOOSE d \in DOMAIN HexDigits : HexDigits[d] = ch) - 1

\* strtoul(temp_buffer, nullptr, 16) of two hex characters.
ParseHexByte(hi, lo) == HexDigitValue(hi) * 16 + HexDigitValue(lo)

\* BitVector::ToString with a buffer: the characters written before the NUL.
ToString(v) ==
    [i \in 1..v.bit_count_ |->
        IF Get(v, v.bit_count_ - (i - 1) - 1) THEN "1" ELSE "0"]

\* The for loop of FromString: Set(buffer_length - i - 1) for every '1'.
RECURSIVE FromStringLoop(_, _, _)
FromStringLoop(v, buffer, i) ==
    IF i >= Len(buffer) THEN v
    ELSE FromStringLoop(IF At(buffer, i) = "1"
                        THEN Set(v, Len(buffer) - i - 1) ELSE v,
                        buffer, i + 1)

\* BitVector::FromString(buffer, buffer_length) with buffer_length = strlen.
FromString(v, buffer) == FromStringLoop(SetBitCount(v, Len(buffer)), buffer, 0)

\* BitVector::ToStringHex with a buffer: the characters written before the
\* NUL.  bytes_[last_byte] is the byte after the array when the array holds
\* bit_count / 8 bytes.
RECURSIVE HexOfLowerBytes(_, _, _)
HexOfLowerBytes(bytes, last_byte, i) ==
    IF i >= last_byte THEN <<>>
    ELSE FormatHexByte(At(bytes, last_byte - i - 1))
         \o HexOfLowerBytes(bytes, last_byte, i + 1)

ToStringHex(v, adjacent_byte) ==
    LET last_byte == v.bit_count_ \div BitsPerByte
        relevant_bits == v.bit_count_ % BitsPerByte
        mask == Shr(MaxByteValue, BitsPerByte - relevant_bits)
    IN  FormatHexByte(And(At(WithAdjacent(v.bytes_, adjacent_byte), last_byte), mask))
        \o HexOfLowerBytes(v.bytes_, last_byte, 0)

\* BitVector::ToStringHex(nullptr, 0): the size it returns, bytes_needed + 1,
\* without touching the bytes.
ToStringHexSize(v) ==
    LET last_byte == v.bit_count_ \div BitsPerByte
        bytes_needed == (last_byte + 1) * 2
    IN  bytes_needed + 1

\* BitVector::FromStringHex on a BitVector whose array holds no more than
\* buffer_length / 2 bytes after SetBitCount: byte i (from 1) is parsed from
\* the two characters at buffer + buffer_length - 2 * i.
FromStringHex(v, buffer) ==
    LET buffer_length == Len(buffer)
        sized == SetBitCount(v, (buffer_length \div 2) * BitsPerByte)
    IN  [sized EXCEPT !.bytes_ =
            [i \in DOMAIN sized.bytes_ |->
                ParseHexByte(At(buffer, buffer_length - 2 * i),
                             At(buffer, buffer_length - 2 * i + 1))]]

---------------------------------------------------------------------------
(* Inputs of the checks.                                                   *)

\* Largest bit count of a BitVector under test.
MaxBits == 24

\* Integer values are enumerated in full up to this many bits.
MaxExhaustiveWidth == 5

\* sizeof(IntegerType) of the instantiations: uint8_t and uint16_t.
IntegerTypeBytes == {1, 2}

\* Byte patterns bit vectors are filled with (every bit position sees 0 and 1).
PatternA == <<165, 60, 195, 90>>

\* Values of the byte that lies after an array in memory.
AdjacentBytes == {<<255, 90>>, <<0, 165>>}

SampleValues == {0, 1, 65535, 32768, 42435, 23100, 255, 65280}

\* A BitVector of bit_count bits over a backing array of
\* BytesNeeded(bit_count) + spare bytes holding |pattern|: what
\* BitVector(bit_count + 8 * spare), Set/Unset of its bits and Clip(bit_count)
\* leave.
PatternVector(bit_count, pattern, spare) ==
    [bytes_ |-> [i \in 1..(BytesNeeded(bit_count) + spare) |-> pattern[i]],
     bit_count_ |-> bit_count]

PatternB == [i \in DOMAIN PatternA |-> Not(PatternA[i])]

\* Bit counts that are and are not a multiple of 8, with and without a spare
\* byte in the backing array.
IntVectors ==
    {PatternVector(MaxBits - 8, PatternA, 0),
     PatternVector(MaxBits - 8, PatternB, 1),
     PatternVector(MaxBits - 4, PatternA, 0),
     PatternVector(MaxBits - 4, PatternB, 0)}

\* The values of an IntegerType of int_bytes bytes tried for a width.
IntValues(bit_width, int_bytes) ==
    {v % Pow2(BitsPerByte * int_bytes) :
        v \in (0..(Pow2(Min(bit_width, MaxExhaustiveWidth)) - 1))
              \cup {s % Pow2(bit_width) : s \in SampleValues}
              \cup SampleValues}

---------------------------------------------------------------------------
(* SpecInt: SetInt followed by GetInt on one BitVector.                    *)

InitInt ==
    /\ NoGeneticAlgorithm
    /\ pc = "init"
    /\ bv \in IntVectors
    /\ pre = bv
    /\ rhs = NewBitVector(0)
    /\ ret = 0
    /\ \E int_bytes \in IntegerTypeBytes :
       \E bit_width \in 1..(BitsPerByte * int_bytes) :
       \E bit_index \in 0..(bv.bit_count_ - bit_width) :
       \E value \in IntValues(bit_width, int_bytes) :
       \E adjacent \in AdjacentBytes :
          args = [int_bytes |-> int_bytes, bit_width |-> bit_width,
                  bit_index |-> bit_index, value |-> value,
                  adjacent |-> adjacent]

CallSetInt ==
    /\ pc = "init"
    /\ args.bit_index + args.bit_width <= bv.bit_count_
    /\ args.bit_width <= BitsPerByte * args.int_bytes
    /\ bv' = SetInt(bv, args.value, args.bit_index, args.bit_width,
                    args.int_bytes, args.adjacent)
    /\ pre' = bv
    /\ pc' = "SetInt"
    /\ UNCHANGED <<args, rhs, ret, gaVars>>

CallGetInt ==
    /\ pc = "SetInt"
    /\ args.bit_index + args.bit_width <= bv.bit_count_
    /\ args.bit_width <= BitsPerByte * args.int_bytes
    /\ ret' = GetInt(bv, args.bit_index, args.bit_width, args.int_bytes,
                     args.adjacent)
    /\ pc' = "GetInt"
    /\ UNCHANGED <<args, bv, pre, rhs, gaVars>>

NextInt == CallSetInt \/ CallGetInt

SpecInt == InitInt /\ [][NextInt]_vars

\* C1: SetInt(value, bitIndex, width) followed by GetInt(bitIndex, width)
\* returns value, for every width from 1 to the bit size of the integer type
\* and every value < 2^width, byte-aligned or not.
C1_SetGetRoundTrip ==
    (pc = "GetInt" /\ args.value < Pow2(args.bit_width)) => ret = args.value

C1_Witness ==
    /\ pc = "GetInt"
    /\ args.bit_index % BitsPerByte # 0
    /\ args.bit_width = 16
    /\ args.value = 42435
    /\ ret = args.value

\* C2: SetInt changes only the bits in [bitIndex, bitIndex + width): every
\* other bit below bit_count keeps its value, and the bits in the range are
\* the low width bits of value.
C2_SetIntFrame ==
    pc = "SetInt" =>
        /\ bv.bit_count_ = pre.bit_count_
        /\ \A i \in 0..(bv.bit_count_ - 1) :
              IF i >= args.bit_index /\ i < args.bit_index + args.bit_width
              THEN Get(bv, i) = (BitOf(args.value, i - args.bit_index) = 1)
              ELSE Get(bv, i) = Get(pre, i)

C2_Witness ==
    /\ pc = "SetInt"
    /\ args.bit_index % BitsPerByte # 0
    /\ args.bit_width = 2
    /\ args.value = 255
    /\ args.bit_index + args.bit_width = bv.bit_count_
    /\ bv # pre

\* The indices of destination WriteBytes reads or writes: last_byte is read
\* from destination_last_byte_index and written back there, memcpy or memset
\* and the loop fill the bytes from the first index to the last one.
WriteBytesDestinationIndices(source_start_bit_offset, destination_start_bit_offset, bits_to_copy) ==
    (destination_start_bit_offset \div BitsPerByte)
    ..((destination_start_bit_offset + bits_to_copy) \div BitsPerByte)

\* The indices of source the while loop reads from bits_written on.
RECURSIVE CopyLoopSourceIndices(_, _, _, _)
CopyLoopSourceIndices(source_start_bit_offset, destination_start_bit_offset, bits_to_copy, bits_written) ==
    IF bits_written >= bits_to_copy THEN {}
    ELSE
        LET source_bit_offset ==
                (source_start_bit_offset + bits_written) % BitsPerByte
            destination_bit_offset ==
                (destination_start_bit_offset + bits_written) % BitsPerByte
        IN  {(source_start_bit_offset + bits_written) \div BitsPerByte}
            \cup CopyLoopSourceIndices(
                    source_start_bit_offset, destination_start_bit_offset,
                    bits_to_copy,
                    bits_written + Min(BitsPerByte - source_bit_offset,
                                       BitsPerByte - destination_bit_offset))

\* The indices of source WriteBytes reads: memcpy reads as many bytes as it
\* writes, the loop reads the byte of each bit position it reaches.
WriteBytesSourceIndices(source_start_bit_offset, destination_start_bit_offset, bits_to_copy) ==
    IF source_start_bit_offset % BitsPerByte = 0
       /\ destination_start_bit_offset % BitsPerByte = 0
    THEN (source_start_bit_offset \div BitsPerByte)
         ..((source_start_bit_offset \div BitsPerByte)
            + ((destination_start_bit_offset + bits_to_copy) \div BitsPerByte)
            - (destination_start_bit_offset \div BitsPerByte))
    ELSE CopyLoopSourceIndices(source_start_bit_offset,
                               destination_start_bit_offset, bits_to_copy, 0)

\* C25: SetInt and GetInt touch destination bytes only at indices below
\* ceil((destination offset + width) / 8) and source bytes only at indices
\* below ceil((source offset + width) / 8), so no byte past the backing array
\* and no byte past the integer, also when the range ends at a bit count
\* that is a multiple of 8 and when the width is the full size of the type.
C25_CopyTouchesOnlyItsBytes ==
    /\ pc = "SetInt" =>
          /\ \A i \in WriteBytesDestinationIndices(0, args.bit_index, args.bit_width) :
                /\ i < BytesNeeded(args.bit_index + args.bit_width)
                /\ i < Len(pre.bytes_)
          /\ \A i \in WriteBytesSourceIndices(0, args.bit_index, args.bit_width) :
                /\ i < BytesNeeded(args.bit_width)
                /\ i < args.int_bytes
    /\ pc = "GetInt" =>
          /\ \A i \in WriteBytesDestinationIndices(args.bit_index, 0, args.bit_width) :
                /\ i < BytesNeeded(args.bit_width)
                /\ i < args.int_bytes
          /\ \A i \in WriteBytesSourceIndices(args.bit_index, 0, args.bit_width) :
                /\ i < BytesNeeded(args.bit_index + args.bit_width)
                /\ i < Len(bv.bytes_)

\* C25, the failing input: SetInt of the last 8 bits of a BitVector of 16
\* bits over 2 bytes.  destination_last_byte_index is 2: bytes_[2] is read
\* and written back.
C25_Witness ==
    /\ pc = "SetInt"
    /\ pre.bit_count_ = 16
    /\ Len(pre.bytes_) = 2
    /\ args.bit_index = 8
    /\ args.bit_width = 8
    /\ 2 \in WriteBytesDestinationIndices(0, args.bit_index, args.bit_width)

\* C25, GetInt<uint8_t> of 8 bits at bit 0: memcpy copies two bytes into the
\* one-byte integer.
C25_WitnessFullWidth ==
    /\ pc = "GetInt"
    /\ args.int_bytes = 1
    /\ args.bit_index = 0
    /\ args.bit_width = 8
    /\ 1 \in WriteBytesDestinationIndices(args.bit_index, 0, args.bit_width)
    /\ 1 \in WriteBytesSourceIndices(args.bit_index, 0, args.bit_width)

\* C25, what holds: no index is past the byte that holds the bit after the
\* range, so at most one byte past the array or the integer is touched, and
\* none past a range that does not end on a byte boundary.
C25_AtMostOneByteBeyond ==
    pc \in {"SetInt", "GetInt"} =>
        LET source_start == IF pc = "SetInt" THEN 0 ELSE args.bit_index
            destination_start == IF pc = "SetInt" THEN args.bit_index ELSE 0
        IN  /\ \A i \in WriteBytesDestinationIndices(source_start, destination_start, args.bit_width) :
                  /\ i <= (destination_start + args.bit_width) \div BitsPerByte
                  /\ (destination_start + args.bit_width) % BitsPerByte # 0
                     => i < BytesNeeded(destination_start + args.bit_width)
            /\ \A i \in WriteBytesSourceIndices(source_start, destination_start, args.bit_width) :
                  /\ i <= (source_start + args.bit_width) \div BitsPerByte
                  /\ (source_start + args.bit_width) % BitsPerByte # 0
                     => i < BytesNeeded(source_start + args.bit_width)

---------------------------------------------------------------------------
(* SpecHamming: Flip and Clip on one BitVector, then HammingDistance.      *)

\* Most calls of Flip before the call under test.
MaxFlips == 1

InitHamming ==
    /\ NoGeneticAlgorithm
    /\ pc = "init"
    /\ bv \in IntVectors
    /\ rhs \in IntVectors
    /\ pre = bv
    /\ ret = 0
    /\ args = [flips |-> 0]

CallFlip ==
    /\ pc \in {"init", "Flip"}
    /\ args.flips < MaxFlips
    /\ \E index \in 0..(bv.bit_count_ - 1) :
          bv' = Flip(bv, index)
    /\ pre' = bv
    /\ pc' = "Flip"
    /\ args' = [args EXCEPT !.flips = @ + 1]
    /\ UNCHANGED <<rhs, ret, gaVars>>

CallClip ==
    /\ pc \in {"init", "Flip"}
    /\ \E bit_count \in 0..bv.bit_count_ :
          bv' = Clip(bv, bit_count)
    /\ pre' = bv
    /\ pc' = "Clip"
    /\ UNCHANGED <<args, rhs, ret, gaVars>>

\* bv.HammingDistance(rhs), rhs.HammingDistance(bv) or bv.HammingDistance(bv).
CallHammingDistance ==
    /\ pc \in {"init", "Flip", "Clip"}
    /\ \E operands \in {<<bv, rhs>>, <<rhs, bv>>, <<bv, bv>>} :
          /\ ret' = HammingDistance(operands[1], operands[2])
          /\ args' = [left |-> operands[1], right |-> operands[2]]
    /\ pc' = "HammingDistance"
    /\ UNCHANGED <<bv, pre, rhs, gaVars>>

NextHamming == CallFlip \/ CallClip \/ CallHammingDistance

SpecHamming == InitHamming /\ [][NextHamming]_vars

\* The bits of the array at or after bit_count, which the BitVector does not hold.
StaleBits(v) == v.bit_count_..(BitsPerByte * Len(v.bytes_) - 1)

\* C9: HammingDistance of two buffers of equal bit_count is the number of
\* indices below bit_count at which they differ, whatever the stale bits of
\* the last byte; with different bit counts it is the maximum size_t.
C9_HammingDistance ==
    pc = "HammingDistance" =>
        IF args.left.bit_count_ = args.right.bit_count_
        THEN ret = Cardinality({i \in 0..(args.left.bit_count_ - 1) :
                                   Get(args.left, i) # Get(args.right, i)})
        ELSE ret = SizeMax

C9_Witness ==
    /\ pc = "HammingDistance"
    /\ args.left.bit_count_ = args.right.bit_count_
    /\ args.left.bit_count_ % BitsPerByte # 0
    /\ \E i \in StaleBits(args.left) \cap StaleBits(args.right) :
          Get(args.left, i) # Get(args.right, i)
    /\ ret > 0
    /\ ret < args.left.bit_count_

---------------------------------------------------------------------------
(* SpecText: a BitVector written as text and read back into a fresh one.   *)

\* The default-constructed BitVector, short vectors and the longer ones.
TextVectors ==
    IntVectors
    \cup {NewBitVector(0), NewBitVector(BitsPerByte),
          PatternVector(3, PatternA, 0), PatternVector(BitsPerByte, PatternB, 0)}

InitText ==
    /\ NoGeneticAlgorithm
    /\ pc = "init"
    /\ bv \in TextVectors
    /\ pre = bv
    /\ rhs = NewBitVector(0)
    /\ ret = <<>>
    /\ \E adjacent \in AdjacentBytes : args = [flips |-> 0, adjacent |-> adjacent]

CallToString ==
    /\ pc \in {"init", "Flip"}
    /\ ret' = ToString(bv)
    /\ pc' = "ToString"
    /\ UNCHANGED <<args, bv, pre, rhs, gaVars>>

\* tbv.FromString(buffer, strlen(buffer)) on the fresh BitVector.
CallFromString ==
    /\ pc = "ToString"
    /\ rhs' = FromString(rhs, ret)
    /\ pc' = "FromString"
    /\ UNCHANGED <<args, bv, pre, ret, gaVars>>

\* ToStringHex reads bytes_[bit_count_ / 8].  When the array is empty
\* (a BitVector of 0 bits that never held any) the read is through the null
\* data pointer: the call faults, or the read yields some byte.
CallToStringHex ==
    /\ pc \in {"init", "Flip"}
    /\ \/ /\ Len(bv.bytes_) > 0
          /\ ret' = ToStringHex(bv, args.adjacent[1])
          /\ pc' = "ToStringHex"
       \/ /\ Len(bv.bytes_) = 0
          /\ ret' = ToStringHex(bv, args.adjacent[1])
          /\ pc' = "ToStringHex"
       \/ /\ Len(bv.bytes_) = 0
          /\ ret' = ret
          /\ pc' = "fault"
    /\ UNCHANGED <<args, bv, pre, rhs, gaVars>>

\* bv.ToStringHex(nullptr, 0)
CallToStringHexSize ==
    /\ pc \in {"init", "Flip"}
    /\ ret' = ToStringHexSize(bv)
    /\ pc' = "ToStringHexSize"
    /\ UNCHANGED <<args, bv, pre, rhs, gaVars>>

\* tbv.FromStringHex(buffer, strlen(buffer)) on the fresh BitVector.
CallFromStringHex ==
    /\ pc = "ToStringHex"
    /\ Len(ret) >= 2
    /\ rhs' = FromStringHex(rhs, ret)
    /\ pc' = "FromStringHex"
    /\ UNCHANGED <<args, bv, pre, ret, gaVars>>

NextText ==
    \/ CallFlip \/ CallToString \/ CallFromString
    \/ CallToStringHex \/ CallToStringHexSize \/ CallFromStringHex

SpecText == InitText /\ [][NextText]_vars

\* C10: for every buffer a, t.FromString(ToString(a)) and
\* t.FromStringHex(ToStringHex(a)) on a fresh t both give a.Equals(t); the
\* binary text has one '0'/'1' character per bit, bit bit_count-1 first.
C10_TextRoundTrip ==
    /\ pc # "fault"
    /\ pc \in {"FromString", "FromStringHex"} => Equals(bv, rhs)
    /\ pc = "ToString" =>
          /\ Len(ret) = bv.bit_count_
          /\ \A i \in 1..Len(ret) :
                ret[i] = (IF Get(bv, bv.bit_count_ - i) THEN "1" ELSE "0")

\* C10, the failing input: ToStringHex of a default-constructed BitVector,
\* whose byte array is empty, does not return.
C10_Witness ==
    /\ pc = "fault"
    /\ bv = NewBitVector(0)
    /\ Len(bv.bytes_) = 0

\* The round trip of every buffer whose ToStringHex returns.
C10_RoundTripWhenReturned ==
    /\ pc \in {"FromString", "FromStringHex"} => Equals(bv, rhs)
    /\ pc = "FromStringHex" => rhs.bit_count_ >= bv.bit_count_
    /\ pc = "ToString" =>
          /\ Len(ret) = bv.bit_count_
          /\ \A i \in 1..Len(ret) :
                ret[i] = (IF Get(bv, bv.bit_count_ - i) THEN "1" ELSE "0")


\* The characters of a hex text are lowercase hex digits.
LowercaseHex(text) ==
    \A i \in 1..Len(text) : \E d \in DOMAIN HexDigits : text[i] = HexDigits[d]

\* The value of byte i of a buffer, from its bits below bit_count.
ValueOfByte(v, i) ==
    LET bit(j) == IF BitsPerByte * i + j < v.bit_count_ /\ Get(v, BitsPerByte * i + j)
                  THEN Pow2(j) ELSE 0
    IN  bit(0) + bit(1) + bit(2) + bit(3) + bit(4) + bit(5) + bit(6) + bit(7)

\* C11: for every bit_count the hex text is two lowercase hex characters per
\* byte of the buffer, 2 * ceil(bit_count / 8) characters, most significant
\* byte first, and ToStringHex(nullptr, 0) returns that length plus 1; also
\* when bit_count is a multiple of 8 and when it is 0.
C11_HexTextLength ==
    /\ pc = "ToStringHex" =>
          /\ Len(ret) = 2 * BytesNeeded(bv.bit_count_)
          /\ LowercaseHex(ret)
          /\ \A i \in 0..(BytesNeeded(bv.bit_count_) - 1) :
                ParseHexByte(ret[Len(ret) - 2 * i - 1], ret[Len(ret) - 2 * i])
                    = ValueOfByte(bv, i)
    /\ pc = "ToStringHexSize" => ret = 2 * BytesNeeded(bv.bit_count_) + 1

\* C11, the failing input: a BitVector of 8 bits, one byte, for which
\* ToStringHex(nullptr, 0) returns 5, the size of a text of two bytes.
C11_Witness ==
    /\ pc = "ToStringHexSize"
    /\ bv.bit_count_ = BitsPerByte
    /\ BytesNeeded(bv.bit_count_) = 1
    /\ ret = 5

\* What the code gives: two lowercase characters for each of
\* bit_count / 8 + 1 bytes, rounded down, and that length plus 1.
C11_HexTextLengthRoundedDown ==
    /\ pc = "ToStringHex" =>
          /\ Len(ret) = 2 * ((bv.bit_count_ \div BitsPerByte) + 1)
          /\ LowercaseHex(ret)
    /\ pc = "ToStringHexSize" => ret = 2 * ((bv.bit_count_ \div BitsPerByte) + 1) + 1

---------------------------------------------------------------------------
(* Genome: the sized genes, then the boolean genes.                        *)

\* A Genome before any gene is added.
NewGenome ==
    [genes_ |-> <<>>, boolean_gene_count_ |-> 0,
     first_boolean_gene_bit_index_ |-> 0]

AddBooleanGenes(g, count) ==
    [g EXCEPT !.boolean_gene_count_ = @ + count]

GetFirstBooleanGeneBitIndex(g) == g.first_boolean_gene_bit_index_

GetFirstBooleanGeneIndex(g) == Len(g.genes_)

GetGeneCount(g) == Len(g.genes_) + g.boolean_gene_count_

\* The size_t expression first_boolean_gene_bit_index_ + genes_.size() -
\* gene_index wraps when it is negative.
GetGeneStartBitIndex(g, gene_index) ==
    IF gene_index >= GetFirstBooleanGeneIndex(g)
    THEN (g.first_boolean_gene_bit_index_ + Len(g.genes_) - gene_index)
         % (SizeMax + 1)
    ELSE At(g.genes_, gene_index).start_bit_index_

GetGeneBitWitdh(g, gene_index) ==
    IF gene_index >= GetFirstBooleanGeneIndex(g)
    THEN 1
    ELSE At(g.genes_, gene_index).bit_width_

\* BitsRequired without the boolean genes after the last sized gene.
BitsRequiredSizedOnly(g) ==
    IF g.genes_ = <<>>
    THEN g.boolean_gene_count_
    ELSE LET gene == g.genes_[Len(g.genes_)]
         IN  gene.start_bit_index_ + gene.bit_width_

BitsRequired(g) ==
    IF g.genes_ = <<>>
    THEN g.boolean_gene_count_
    ELSE LET gene == g.genes_[Len(g.genes_)]
         IN  gene.start_bit_index_ + gene.bit_width_ + g.boolean_gene_count_

\* Genome::AddGene: the genome after the call and the index it returns.
AddGene(g, bit_width, byte_align) ==
    LET previous_end ==
            IF g.genes_ = <<>> THEN 0
            ELSE g.genes_[Len(g.genes_)].start_bit_index_
                 + g.genes_[Len(g.genes_)].bit_width_
        bit_gap_start_index == previous_end % BitsPerByte
        bit_start_index ==
            IF byte_align /\ bit_gap_start_index # 0
            THEN previous_end + (BitsPerByte - bit_gap_start_index)
            ELSE previous_end
        bit_gap_width == bit_width % BitsPerByte
        aligned_width ==
            IF byte_align /\ bit_gap_width # 0
            THEN bit_width + (BitsPerByte - bit_gap_width)
            ELSE bit_width
    IN  [genome |->
            [g EXCEPT
                !.genes_ = Append(@, [start_bit_index_ |-> bit_start_index,
                                      bit_width_ |-> aligned_width]),
                !.first_boolean_gene_bit_index_ = bit_start_index + aligned_width],
         gene_index |-> Len(g.genes_)]

---------------------------------------------------------------------------
(* SpecGenome: a Genome built by AddGene and AddBooleanGenes in any order. *)

MaxCalls == 4

GeneWidths == {1, 3, 8, 13}

BooleanGeneCounts == {0, 1, 2}

\* args counts what the calls made so far were given.
InitGenome ==
    /\ pc = "init"
    /\ genome = NewGenome
    /\ args = [calls |-> 0, widths |-> 0, booleans |-> 0, sized |-> 0,
               aligned |-> FALSE]
    /\ ret = 0
    /\ bv = NewBitVector(0)
    /\ pre = bv
    /\ rhs = bv
    /\ offspring = bv
    /\ population = [individuals_ |-> <<>>, partial_sums_ |-> <<>>, sorted_indices_ |-> <<>>,
                     is_sorted_ |-> FALSE]
    /\ ga = [currentGeneration |-> 0]

CallAddGene ==
    /\ args.calls < MaxCalls
    /\ \E bit_width \in GeneWidths :
          /\ genome' = AddGene(genome, bit_width, FALSE).genome
          /\ ret' = AddGene(genome, bit_width, FALSE).gene_index
          /\ args' = [args EXCEPT !.calls = @ + 1, !.widths = @ + bit_width,
                                  !.sized = @ + 1]
    /\ pc' = "AddGene"
    /\ UNCHANGED <<bv, pre, rhs, offspring, population, ga>>

CallAddGeneByteAligned ==
    /\ args.calls < MaxCalls
    /\ \E bit_width \in GeneWidths :
          /\ genome' = AddGene(genome, bit_width, TRUE).genome
          /\ ret' = AddGene(genome, bit_width, TRUE).gene_index
          /\ args' = [args EXCEPT !.calls = @ + 1, !.widths = @ + bit_width,
                                  !.sized = @ + 1, !.aligned = TRUE]
    /\ pc' = "AddGene"
    /\ UNCHANGED <<bv, pre, rhs, offspring, population, ga>>

CallAddBooleanGenes ==
    /\ args.calls < MaxCalls
    /\ \E count \in BooleanGeneCounts :
          /\ genome' = AddBooleanGenes(genome, count)
          /\ args' = [args EXCEPT !.calls = @ + 1, !.booleans = @ + count]
    /\ pc' = "AddBooleanGenes"
    /\ UNCHANGED <<ret, bv, pre, rhs, offspring, population, ga>>

NextGenome == CallAddGene \/ CallAddGeneByteAligned \/ CallAddBooleanGenes

SpecGenome == InitGenome /\ [][NextGenome]_vars

\* C8: after any interleaving of AddGene(width) calls without byte alignment
\* and AddBooleanGenes(n) calls, BitsRequired() is the sum of the widths
\* added plus the boolean genes added, and an AddGene returns the number of
\* sized genes added before it.
C8_BitsRequired ==
    /\ ~args.aligned => BitsRequired(genome) = args.widths + args.booleans
    /\ pc = "AddGene" => ret = args.sized - 1

\* A sized gene added after boolean genes and after another sized gene.
C8_Witness ==
    /\ pc = "AddGene"
    /\ ~args.aligned
    /\ args.booleans = 2
    /\ ret = 1
    /\ args.widths = 16
    /\ BitsRequired(genome) = 18


\* The bits [GetGeneStartBitIndex(i), GetGeneStartBitIndex(i) + GetGeneBitWitdh(i)).
LayoutBits(g, i) ==
    GetGeneStartBitIndex(g, i)
    ..(GetGeneStartBitIndex(g, i) + GetGeneBitWitdh(g, i) - 1)

\* The layout of the genes with index in |indices|: inside the chromosome,
\* disjoint, and each boolean gene at the bit DecodeBooleanGene and
\* EncodeBooleanGene access.
LayoutSound(g, indices) ==
    /\ \A i \in indices :
          GetGeneStartBitIndex(g, i) + GetGeneBitWitdh(g, i) <= BitsRequired(g)
    /\ \A i, k \in indices :
          i # k => LayoutBits(g, i) \cap LayoutBits(g, k) = {}
    /\ \A i \in indices :
          i >= GetFirstBooleanGeneIndex(g) =>
              /\ GetGeneBitWitdh(g, i) = 1
              /\ GetGeneStartBitIndex(g, i)
                    = (i - GetFirstBooleanGeneIndex(g)) + GetFirstBooleanGeneBitIndex(g)

\* C18: for every genome built by AddGene and AddBooleanGenes and every
\* gene index i < GetGeneCount(), the bit range of gene i lies inside
\* [0, BitsRequired()) and is disjoint from the range of every other gene,
\* and the j-th boolean gene is the single bit at
\* first_boolean_bit_index + j, the bit DecodeBooleanGene accesses.
C18_GeneLayout ==
    LayoutSound(genome, 0..(GetGeneCount(genome) - 1))

\* C18, the failing input: a sized gene and two boolean genes; the layout
\* puts the second boolean gene one bit below the first, in the sized gene.
C18_Witness ==
    /\ Len(genome.genes_) = 1
    /\ genome.boolean_gene_count_ = 2
    /\ GetGeneStartBitIndex(genome, 2) = GetFirstBooleanGeneBitIndex(genome) - 1
    /\ GetGeneStartBitIndex(genome, 2) \in LayoutBits(genome, 0)

\* The same for the sized genes and the first boolean gene.
C18_LayoutUpToFirstBooleanGene ==
    LayoutSound(genome, 0..(Min(GetGeneCount(genome), Len(genome.genes_) + 1) - 1))

---------------------------------------------------------------------------
(* Chromosome: a BitVector of genome.BitsRequired() bits read and written  *)
(* gene by gene.                                                           *)

\* Chromosome::Chromosome(genome)
NewChromosome(g) == NewBitVector(BitsRequired(g))

\* operator^ on two unsigned integers.
RECURSIVE XorInteger(_, _)
XorInteger(a, b) ==
    IF a = 0 THEN b
    ELSE IF b = 0 THEN a
    ELSE ((a + b) % 2) + 2 * XorInteger(a \div 2, b \div 2)

\* The loop of DecodeGray: while (grayValue >>= 1) binaryValue ^= grayValue.
RECURSIVE DecodeGrayLoop(_, _)
DecodeGrayLoop(grayValue, binaryValue) ==
    IF grayValue \div 2 = 0
    THEN binaryValue
    ELSE DecodeGrayLoop(grayValue \div 2,
                        XorInteger(binaryValue, grayValue \div 2))

DecodeGray(grayValue) == DecodeGrayLoop(grayValue, grayValue)

EncodeGray(binaryValue) == XorInteger(binaryValue, binaryValue \div 2)

\* std::numeric_limits<IntegerType>::max() of an unsigned type of int_bytes bytes.
NumericMax(int_bytes) == Pow2(BitsPerByte * int_bytes) - 1

\* Chromosome::DecodeIntegerGene<IntegerType, useGrayEncoding>
DecodeIntegerGene(chromosome, g, geneIndex, min, max, int_bytes, useGrayEncoding, adjacent) ==
    IF min = max
    THEN min
    ELSE LET raw == GetInt(chromosome, GetGeneStartBitIndex(g, geneIndex),
                           GetGeneBitWitdh(g, geneIndex), int_bytes, adjacent)
             value == IF useGrayEncoding THEN DecodeGray(raw) ELSE raw
         IN  ((value % (max - min)) + min) % Pow2(BitsPerByte * int_bytes)

\* Chromosome::EncodeIntegerGene<IntegerType, useGrayEncoding>
EncodeIntegerGene(chromosome, g, geneIndex, value, int_bytes, useGrayEncoding, adjacent) ==
    SetInt(chromosome,
           IF useGrayEncoding THEN EncodeGray(value) ELSE value,
           GetGeneStartBitIndex(g, geneIndex), GetGeneBitWitdh(g, geneIndex),
           int_bytes, adjacent)

\* Chromosome::DecodeBooleanGene
DecodeBooleanGene(chromosome, g, gene_index) ==
    Get(chromosome,
        (gene_index - GetFirstBooleanGeneIndex(g)) + GetFirstBooleanGeneBitIndex(g))

\* Chromosome::EncodeBooleanGene
EncodeBooleanGene(chromosome, g, gene_index, value) ==
    LET bit_index == (gene_index - GetFirstBooleanGeneIndex(g))
                     + GetFirstBooleanGeneBitIndex(g)
    IN  IF value THEN Set(chromosome, bit_index) ELSE Unset(chromosome, bit_index)

---------------------------------------------------------------------------
(* SpecGene: EncodeIntegerGene followed by DecodeIntegerGene of one gene.  *)

\* genome.AddGene(w) for each w of |widths| in turn, then AddBooleanGenes.
RECURSIVE BuildGenome(_, _)
BuildGenome(widths, boolean_gene_count) ==
    IF widths = <<>>
    THEN AddBooleanGenes(NewGenome, boolean_gene_count)
    ELSE LET before == BuildGenome(SubSeq(widths, 1, Len(widths) - 1), 0)
         IN  AddBooleanGenes(AddGene(before, widths[Len(widths)], FALSE).genome,
                             boolean_gene_count)

\* A gene of every width an IntegerType can hold, between two other genes,
\* starting on and off a byte border, with and without boolean genes.
GeneGenomes ==
    {BuildGenome(<<first, width, 5>>, boolean_gene_count) :
        first \in {3, 8}, width \in 1..(BitsPerByte * 2),
        boolean_gene_count \in {0, 2}}

\* The Chromosome of |g| after Randomize.
RandomizedChromosome(g, pattern) ==
    PatternVector(BitsRequired(g), pattern, 0)

InitGene ==
    /\ pc = "init"
    /\ genome \in GeneGenomes
    /\ bv = RandomizedChromosome(genome, PatternA)
    /\ pre = bv
    /\ rhs = NewBitVector(0)
    /\ ret = 0
    /\ offspring = NewBitVector(0)
    /\ population = [individuals_ |-> <<>>, partial_sums_ |-> <<>>, sorted_indices_ |-> <<>>,
                     is_sorted_ |-> FALSE]
    /\ ga = [currentGeneration |-> 0]
    /\ \E int_bytes \in IntegerTypeBytes, geneIndex \in 0..(GetGeneCount(genome) - 1) :
          /\ GetGeneBitWitdh(genome, geneIndex) <= BitsPerByte * int_bytes
          /\ \E value \in IntValues(GetGeneBitWitdh(genome, geneIndex), int_bytes),
                useGrayEncoding \in BOOLEAN, adjacent \in AdjacentBytes :
                args = [int_bytes |-> int_bytes, geneIndex |-> geneIndex,
                        value |-> value, useGrayEncoding |-> useGrayEncoding,
                        adjacent |-> adjacent]

CallEncodeIntegerGene ==
    /\ pc = "init"
    /\ bv' = EncodeIntegerGene(bv, genome, args.geneIndex, args.value,
                               args.int_bytes, args.useGrayEncoding, args.adjacent)
    /\ pre' = bv
    /\ pc' = "EncodeIntegerGene"
    /\ UNCHANGED <<args, rhs, ret, gaVars>>

\* DecodeIntegerGene<IntegerType>(geneIndex): min and max take their defaults.
CallDecodeIntegerGene ==
    /\ pc = "EncodeIntegerGene"
    /\ ret' = DecodeIntegerGene(bv, genome, args.geneIndex, 0,
                                NumericMax(args.int_bytes), args.int_bytes,
                                args.useGrayEncoding, args.adjacent)
    /\ pc' = "DecodeIntegerGene"
    /\ UNCHANGED <<args, bv, pre, rhs, gaVars>>

NextGene == CallEncodeIntegerGene \/ CallDecodeIntegerGene

SpecGene == InitGene /\ [][NextGene]_vars

\* C3: for every gene width w from 1 to the bit size of IntegerType and every
\* value v < 2^w, EncodeIntegerGene(i, v) followed by DecodeIntegerGene(i)
\* with the default min and max returns v, with and without Gray coding.
C3_GeneRoundTrip ==
    (/\ pc = "DecodeIntegerGene"
     /\ args.value < Pow2(GetGeneBitWitdh(genome, args.geneIndex)))
    => ret = args.value

\* The round trip of every value below the largest value of IntegerType.
C3_RoundTripBelowNumericMax ==
    (/\ pc = "DecodeIntegerGene"
     /\ args.value < Pow2(GetGeneBitWitdh(genome, args.geneIndex))
     /\ args.value < NumericMax(args.int_bytes))
    => ret = args.value

\* C3, the failing input: 255 encoded as uint8_t in a gene of 8 bits
\* decodes to 0.
C3_Witness ==
    /\ pc = "DecodeIntegerGene"
    /\ args.int_bytes = 1
    /\ ~args.useGrayEncoding
    /\ GetGeneBitWitdh(genome, args.geneIndex) = BitsPerByte
    /\ args.value = NumericMax(1)
    /\ ret = 0

---------------------------------------------------------------------------
(* Chromosome crossover and mutation.  The result of an operator is a      *)
(* record [chromosome, fault]: fault is TRUE when the call does not        *)
(* return, because an assert fails in a build that keeps assertions or     *)
(* because an access lies far outside the byte array.                      *)

\* The assert(index < bit_count_) of Get, Set, Unset and Flip fails, or the
\* byte they index is outside the array.
IndexFaults(v, index, asserts) ==
    \/ asserts /\ index >= v.bit_count_
    \/ index >= BitsPerByte * Len(v.bytes_)

\* The genes of UniformCrossover's loop from gene i on.
RECURSIVE UniformCrossoverGenes(_, _, _, _, _, _, _, _)
UniformCrossoverGenes(parent1, parent2, result, g, coins, i, asserts, adjacent) ==
    IF result.fault \/ i >= GetGeneCount(g)
    THEN result
    ELSE
        LET chunk_source == IF coins[i + 1] THEN parent1 ELSE parent2
            gene_bit_index == GetGeneStartBitIndex(g, i)
            gene_bit_width == GetGeneBitWitdh(g, i)
            o == result.chromosome
            next ==
                IF i < GetFirstBooleanGeneIndex(g)
                THEN [chromosome |-> SubVector(chunk_source, o, gene_bit_index,
                                               gene_bit_index, gene_bit_width,
                                               adjacent),
                      fault |-> FALSE]
                ELSE IF \/ IndexFaults(chunk_source, gene_bit_index, asserts)
                        \/ IndexFaults(o, gene_bit_index, asserts)
                THEN [chromosome |-> o, fault |-> TRUE]
                ELSE [chromosome |-> IF Get(chunk_source, gene_bit_index)
                                     THEN Set(o, gene_bit_index)
                                     ELSE Unset(o, gene_bit_index),
                      fault |-> FALSE]
        IN  UniformCrossoverGenes(parent1, parent2, next, g, coins, i + 1,
                                  asserts, adjacent)

\* Chromosome::UniformCrossover.  random.coins are the results of CoinFlip
\* and random.masks the results of RandomByte, in the order they are drawn.
UniformCrossover(parent1, parent2, offspring_in, g, random, ignore_gene_boundaries, asserts, adjacent) ==
    LET resized == Resize(offspring_in, parent1.bit_count_)
    IN  IF ignore_gene_boundaries
        THEN [chromosome |->
                [resized EXCEPT !.bytes_ =
                    [i \in DOMAIN resized.bytes_ |->
                        Or(And(random.masks[i],
                               At(WithAdjacent(parent1.bytes_, adjacent[1]),
                                  Min(i - 1, Len(parent1.bytes_)))),
                           And(Not(random.masks[i]),
                               At(WithAdjacent(parent2.bytes_, adjacent[1]),
                                  Min(i - 1, Len(parent2.bytes_)))))]],
              fault |-> FALSE]
        ELSE UniformCrossoverGenes(parent1, parent2,
                                   [chromosome |-> resized, fault |-> FALSE],
                                   g, random.coins, 0, asserts, adjacent)

\* The chunks of KPointCrossover from chunk i on when cut points can fall
\* anywhere; cuts[i + 1] is the RandomInteger drawn for chunk i.
\* The parent chunk i is copied from when every chunk comes from parent1.
ChunkSourceParent1(i, parent1, parent2) == parent1

\* const Chromosome& chunkSource = i % 2U == 0 ? parent1 : parent2;
ChunkSource(i, parent1, parent2) == IF i % 2 = 0 THEN parent1 ELSE parent2

RECURSIVE KPointCrossoverBits(_, _, _, _, _, _, _, _)
KPointCrossoverBits(k, parent1, parent2, o, cuts, i, left_bit_index, adjacent) ==
    IF i > k
    THEN o
    ELSE
        LET bit_count == parent1.bit_count_
            right_bit_index == IF i = k THEN bit_count ELSE cuts[i + 1]
            chunkSource == ChunkSource(i, parent1, parent2)
            next ==
                IF left_bit_index < bit_count
                THEN SubVector(chunkSource, o, left_bit_index, left_bit_index,
                               right_bit_index - left_bit_index, adjacent)
                ELSE o
        IN  KPointCrossoverBits(k, parent1, parent2, next, cuts, i + 1,
                                right_bit_index, adjacent)

\* The chunks of KPointCrossover from chunk i on when cut points fall on
\* gene boundaries.  GetGeneStartBitIndex(gene_count) fails its assert; in a
\* build without assertions it takes the boolean-gene branch.  A chunk whose
\* end lies before its start has a width that wraps: the copy runs off the
\* arrays.
RECURSIVE KPointCrossoverGenes(_, _, _, _, _, _, _, _, _, _)
KPointCrossoverGenes(k, parent1, parent2, result, g, cuts, i, left_gene_index, asserts, adjacent) ==
    IF result.fault \/ i > k
    THEN result
    ELSE
        LET gene_count == GetGeneCount(g)
            right_gene_index == IF i = k THEN gene_count ELSE cuts[i + 1]
            chunkSource == ChunkSource(i, parent1, parent2)
            start_bit_index == GetGeneStartBitIndex(g, left_gene_index)
            end_bit_index ==
                (GetGeneStartBitIndex(g, right_gene_index)
                 + GetGeneBitWitdh(g, right_gene_index)) % (SizeMax + 1)
            bits_to_copy == (end_bit_index - start_bit_index) % (SizeMax + 1)
            next ==
                IF left_gene_index >= gene_count
                THEN result
                ELSE IF \/ asserts /\ right_gene_index >= gene_count
                        \/ start_bit_index + bits_to_copy
                             > BitsPerByte * (Len(chunkSource.bytes_) + 1)
                THEN [chromosome |-> result.chromosome, fault |-> TRUE]
                ELSE [chromosome |-> SubVector(chunkSource, result.chromosome,
                                               start_bit_index, start_bit_index,
                                               bits_to_copy, adjacent),
                      fault |-> FALSE]
        IN  KPointCrossoverGenes(k, parent1, parent2, next, g, cuts, i + 1,
                                 right_gene_index, asserts, adjacent)

\* Chromosome::KPointCrossover
KPointCrossover(k, parent1, parent2, offspring_in, g, cuts, ignore_gene_boundaries, asserts, adjacent) ==
    LET resized == Resize(offspring_in, parent1.bit_count_)
    IN  IF ignore_gene_boundaries
        THEN [chromosome |-> KPointCrossoverBits(k, parent1, parent2, resized,
                                                 cuts, 0, 0, adjacent),
              fault |-> FALSE]
        ELSE KPointCrossoverGenes(k, parent1, parent2,
                                  [chromosome |-> resized, fault |-> FALSE],
                                  g, cuts, 0, 0, asserts, adjacent)

\* The sequences of k results RandomInteger(left, bound) can give when each
\* result is the next call's left.
CutPoints(k, bound) ==
    {cuts \in [1..k -> 0..bound] :
        \A i \in 1..(k - 1) : cuts[i] <= cuts[i + 1]}

\* The flips of FlipMutator from flip i on; indices[i] is RandomInteger(0, bit_count - 1).
RECURSIVE FlipMutatorLoop(_, _, _)
FlipMutatorLoop(chromosome, indices, i) ==
    IF i > Len(indices)
    THEN chromosome
    ELSE FlipMutatorLoop(Flip(chromosome, indices[i]), indices, i + 1)

\* Chromosome::FlipMutator, given the indices drawn for its
\* llround(bit_count * mutation_percentage) flips.
FlipMutator(chromosome, indices) == FlipMutatorLoop(chromosome, indices, 1)

---------------------------------------------------------------------------
(* SpecCrossover: one crossover of two parents into an offspring.          *)

MaxK == 2

\* Sized genes only, boolean genes only, and both.
CrossoverGenomes ==
    {BuildGenome(<<3, 5>>, 0), BuildGenome(<<8>>, 0), BuildGenome(<<>>, 1),
     BuildGenome(<<>>, 3), BuildGenome(<<2>>, 2), BuildGenome(<<3, 8>>, 1)}

MaskBytes == {0, 255, 165}

\* bv is parent1 and rhs is parent2; they differ in every bit.  The
\* offspring is a new Chromosome or one that held other bits before.
InitCrossover ==
    /\ pc = "init"
    /\ genome \in CrossoverGenomes
    /\ \E pattern \in {PatternA, PatternB} :
          /\ bv = RandomizedChromosome(genome, pattern)
          /\ rhs = [bv EXCEPT !.bytes_ = [i \in DOMAIN bv.bytes_ |-> Not(bv.bytes_[i])]]
    /\ pre = bv
    /\ ret = 0
    /\ offspring \in {NewChromosome(genome), RandomizedChromosome(genome, PatternA)}
    /\ population = [individuals_ |-> <<>>, partial_sums_ |-> <<>>, sorted_indices_ |-> <<>>,
                     is_sorted_ |-> FALSE]
    /\ ga = [currentGeneration |-> 0]
    /\ \E asserts \in BOOLEAN, adjacent \in AdjacentBytes :
          args = [asserts |-> asserts, adjacent |-> adjacent]

CallUniformCrossover ==
    /\ pc = "init"
    /\ \E ignore_gene_boundaries \in BOOLEAN,
          coins \in [1..GetGeneCount(genome) -> BOOLEAN],
          masks \in [1..Len(Resize(offspring, bv.bit_count_).bytes_) -> MaskBytes] :
          LET result == UniformCrossover(bv, rhs, offspring, genome,
                                         [coins |-> coins, masks |-> masks],
                                         ignore_gene_boundaries, args.asserts,
                                         args.adjacent)
          IN  /\ offspring' = result.chromosome
              /\ pc' = IF result.fault THEN "fault" ELSE "UniformCrossover"
              /\ args' = [asserts |-> args.asserts, adjacent |-> args.adjacent,
                          ignore_gene_boundaries |-> ignore_gene_boundaries,
                          coins |-> coins]
    /\ UNCHANGED <<bv, pre, rhs, ret, genome, population, ga>>

CallKPointCrossover ==
    /\ pc = "init"
    /\ \E ignore_gene_boundaries \in BOOLEAN, k \in 1..MaxK :
       \E cuts \in CutPoints(k, IF ignore_gene_boundaries THEN bv.bit_count_
                                ELSE GetGeneCount(genome)) :
          LET result == KPointCrossover(k, bv, rhs, offspring, genome, cuts,
                                        ignore_gene_boundaries, args.asserts,
                                        args.adjacent)
          IN  /\ offspring' = result.chromosome
              /\ pc' = IF result.fault THEN "fault" ELSE "KPointCrossover"
              /\ args' = [asserts |-> args.asserts, adjacent |-> args.adjacent,
                          ignore_gene_boundaries |-> ignore_gene_boundaries,
                          cuts |-> cuts]
    /\ UNCHANGED <<bv, pre, rhs, ret, genome, population, ga>>

NextCrossover == CallUniformCrossover \/ CallKPointCrossover

SpecCrossover == InitCrossover /\ [][NextCrossover]_vars

\* The bits of gene i: the range of a sized gene, and the bit
\* DecodeBooleanGene reads for a boolean gene.
GeneBitRange(g, i) ==
    IF i < GetFirstBooleanGeneIndex(g)
    THEN GetGeneStartBitIndex(g, i)
         ..(GetGeneStartBitIndex(g, i) + GetGeneBitWitdh(g, i) - 1)
    ELSE {(i - GetFirstBooleanGeneIndex(g)) + GetFirstBooleanGeneBitIndex(g)}

\* Chromosomes a and b hold the same value of gene i.
SameGene(a, b, g, i) ==
    \A bit \in GeneBitRange(g, i) : Get(a, bit) = Get(b, bit)

\* C4: after UniformCrossover with ignore_gene_boundaries = false, on a
\* genome of sized genes, boolean genes or both, every gene of the offspring
\* equals over its whole bit range that gene of parent1 or that gene of
\* parent2, whatever the coin flips.
C4_UniformCrossoverWholeGenes ==
    (pc = "UniformCrossover" /\ ~args.ignore_gene_boundaries)
    => \A i \in 0..(GetGeneCount(genome) - 1) :
          SameGene(offspring, bv, genome, i) \/ SameGene(offspring, rhs, genome, i)

\* C4, the failing input: a sized gene of 2 bits and 2 boolean genes; the
\* sized gene comes from parent2, the last boolean gene from parent1, and
\* the offspring's sized gene is a gene of neither parent.
C4_Witness ==
    /\ pc = "UniformCrossover"
    /\ ~args.ignore_gene_boundaries
    /\ genome = BuildGenome(<<2>>, 2)
    /\ args.coins = <<FALSE, FALSE, TRUE>>
    /\ ~SameGene(offspring, bv, genome, 0)
    /\ ~SameGene(offspring, rhs, genome, 0)

\* Whole genes on the genomes with at most one boolean gene, where the
\* bit GetGeneStartBitIndex names is the bit of the boolean gene.
C4_WholeGenesUpToOneBooleanGene ==
    (/\ pc = "UniformCrossover"
     /\ ~args.ignore_gene_boundaries
     /\ genome.boolean_gene_count_ <= 1)
    => \A i \in 0..(GetGeneCount(genome) - 1) :
          SameGene(offspring, bv, genome, i) \/ SameGene(offspring, rhs, genome, i)

\* The gene indices KPointCrossover passes to GetGeneStartBitIndex and
\* GetGeneBitWitdh from chunk i on: left_gene_index and right_gene_index of
\* every chunk that starts before gene_count.
RECURSIVE KPointCrossoverQueries(_, _, _, _, _)
KPointCrossoverQueries(k, g, cuts, i, left_gene_index) ==
    IF i > k
    THEN {}
    ELSE
        LET gene_count == GetGeneCount(g)
            right_gene_index == IF i = k THEN gene_count ELSE cuts[i + 1]
        IN  (IF left_gene_index < gene_count
             THEN {left_gene_index, right_gene_index}
             ELSE {})
            \cup KPointCrossoverQueries(k, g, cuts, i + 1, right_gene_index)

\* Cut point i of a crossover over 0..bound: 0, the drawn points, then bound.
CutPoint(cuts, i, bound) ==
    IF i = 0 THEN 0 ELSE IF i > Len(cuts) THEN bound ELSE cuts[i]

\* C19: KPointCrossover with ignore_gene_boundaries = false asks the genome
\* for no gene index at or past GetGeneCount(), the final chunk included,
\* returns, and leaves every gene of chunk i, the genes from cut point i up
\* to cut point i + 1, equal to that gene of parent1 when i is even and of
\* parent2 when i is odd.
C19_KPointCrossoverGenes ==
    ("cuts" \in DOMAIN args /\ ~args.ignore_gene_boundaries)
    => /\ pc # "fault"
       /\ \A index \in KPointCrossoverQueries(Len(args.cuts), genome, args.cuts, 0, 0) :
             index < GetGeneCount(genome)
       /\ offspring.bit_count_ = bv.bit_count_
       /\ \A i \in 0..Len(args.cuts) :
             \A gene \in CutPoint(args.cuts, i, GetGeneCount(genome))
                         ..(CutPoint(args.cuts, i + 1, GetGeneCount(genome)) - 1) :
                SameGene(offspring, IF i % 2 = 0 THEN bv ELSE rhs, genome, gene)

\* C19, the failing input: one sized gene of 8 bits, k = 1 and the cut point
\* drawn at 0.  The final chunk asks for gene 1 of a genome of 1 gene: the
\* build with assertions stops there.
C19_Witness ==
    /\ pc = "fault"
    /\ "cuts" \in DOMAIN args
    /\ ~args.ignore_gene_boundaries
    /\ args.asserts
    /\ genome = BuildGenome(<<8>>, 0)
    /\ args.cuts = <<0>>
    /\ GetGeneCount(genome) \in KPointCrossoverQueries(1, genome, args.cuts, 0, 0)

\* C19, the same input in the build without assertions: gene 1 is taken for
\* a boolean gene at bit 8 and the offspring comes back one bit longer than
\* its parents.
C19_WitnessWithoutAssertions ==
    /\ pc = "KPointCrossover"
    /\ ~args.ignore_gene_boundaries
    /\ ~args.asserts
    /\ genome = BuildGenome(<<8>>, 0)
    /\ args.cuts = <<0>>
    /\ bv.bit_count_ = 8
    /\ offspring.bit_count_ = 9

\* C19, what every call on a genome with genes does: some chunk has its right
\* end at gene_count, so GetGeneStartBitIndex(gene_count) is always asked for.
C19_AlwaysQueriesGeneCount ==
    (/\ "cuts" \in DOMAIN args
     /\ ~args.ignore_gene_boundaries
     /\ GetGeneCount(genome) > 0)
    => GetGeneCount(genome)
         \in KPointCrossoverQueries(Len(args.cuts), genome, args.cuts, 0, 0)

\* C20: KPointCrossover with ignore_gene_boundaries = true returns an
\* offspring of the parents' bit count in which every bit of chunk i, the
\* bits from cut point i up to cut point i + 1 with cut point 0 at bit 0 and
\* the last one at the bit count, is parent1's bit when i is even and
\* parent2's bit when i is odd, for every draw of the cut points.
C20_KPointCrossoverBits ==
    ("cuts" \in DOMAIN args /\ args.ignore_gene_boundaries)
    => /\ pc = "KPointCrossover"
       /\ offspring.bit_count_ = bv.bit_count_
       /\ \A i \in 0..Len(args.cuts) :
             \A bit \in CutPoint(args.cuts, i, bv.bit_count_)
                        ..(CutPoint(args.cuts, i + 1, bv.bit_count_) - 1) :
                Get(offspring, bit) = Get(IF i % 2 = 0 THEN bv ELSE rhs, bit)

\* C20: two cut points, the second at the bit count, so that the last chunk
\* is empty; the offspring starts as parent1 and ends as parent2.
C20_Witness ==
    /\ pc = "KPointCrossover"
    /\ args.ignore_gene_boundaries
    /\ bv.bit_count_ = 8
    /\ args.cuts = <<2, 8>>
    /\ Get(offspring, 1) = Get(bv, 1)
    /\ Get(offspring, 2) = Get(rhs, 2)
    /\ Get(offspring, 7) = Get(rhs, 7)
    /\ Get(offspring, 7) # Get(bv, 7)

\* C20: two equal cut points inside the chromosome; the chunk between them
\* is empty and the offspring is parent1.
C20_WitnessEmptyChunk ==
    /\ pc = "KPointCrossover"
    /\ args.ignore_gene_boundaries
    /\ bv.bit_count_ = 8
    /\ args.cuts = <<3, 3>>
    /\ \A bit \in 0..7 : Get(offspring, bit) = Get(bv, bit)

---------------------------------------------------------------------------
(* Individual: a Chromosome with a score and a fitness.  A score is an     *)
(* integer.  A fitness is the quotient num / den of two integers, kept as   *)
(* the pair: den = 0 is the division by zero of the floating-point code.   *)

\* Individual::Individual(genome): score_ = 0.0 and fitness_ = 0.0.
NewIndividual(chromosome) ==
    [bytes_ |-> chromosome.bytes_, bit_count_ |-> chromosome.bit_count_,
     score_ |-> 0, fitness_ |-> [num |-> 0, den |-> 1]]

\* The BitVector an Individual is.
AsBitVector(individual) ==
    [bytes_ |-> individual.bytes_, bit_count_ |-> individual.bit_count_]

\* The Individual after an operation on the BitVector it is.
WithBitVector(individual, v) ==
    [individual EXCEPT !.bytes_ = v.bytes_, !.bit_count_ = v.bit_count_]

\* Individual::operator= without the copy.
IndividualKept(individual, rhs_individual) == individual

\* Individual::operator=
IndividualAssign(individual, rhs_individual) ==
    [WithBitVector(individual,
                   Assign(AsBitVector(individual), AsBitVector(rhs_individual)))
        EXCEPT !.score_ = rhs_individual.score_,
               !.fitness_ = rhs_individual.fitness_]

\* Individual::operator< with the comparison turned around.
IndividualGreater(left, right) == left.score_ > right.score_

\* Individual::operator<
IndividualLess(left, right) == left.score_ < right.score_

---------------------------------------------------------------------------
(* Population: individuals_ and the sorted view sorted_indices_.           *)

RECURSIVE SumOf(_)
SumOf(numbers) ==
    IF numbers = <<>> THEN 0
    ELSE numbers[Len(numbers)] + SumOf(SubSeq(numbers, 1, Len(numbers) - 1))

\* The orders std::sort can leave |indices| in: every arrangement of the
\* same indices in which no later individual is less than an earlier one.
SortedArrangements(individuals, indices) ==
    {sorted \in [DOMAIN indices -> {indices[i] : i \in DOMAIN indices}] :
        /\ \A i, j \in DOMAIN sorted : i # j => sorted[i] # sorted[j]
        /\ \A i, j \in DOMAIN sorted :
              i < j => ~IndividualLess(At(individuals, sorted[j]),
                                       At(individuals, sorted[i]))}

\* Population::Sort: the populations it can leave.
Sort(p) ==
    LET indices ==
            IF p.sorted_indices_ = <<>>
               \/ Len(p.sorted_indices_) # Len(p.individuals_)
            THEN [index \in 1..Len(p.individuals_) |-> index - 1]
            ELSE p.sorted_indices_
    IN  {[p EXCEPT !.sorted_indices_ = sorted, !.is_sorted_ = TRUE] :
            sorted \in SortedArrangements(p.individuals_, indices)}

\* Population::GetIndividual
GetIndividual(p, index) == At(p.individuals_, At(p.sorted_indices_, index))

\* Population::GetBestIndividual
GetBestIndividual(p) == GetIndividual(p, 0)

\* Population::Size
Size(p) == Len(p.individuals_)

\* The two fitness loops of Evaluate on a sorted population.
EvaluateFitness(p) ==
    LET best_score == GetBestIndividual(p).score_
        worst_score == GetIndividual(p, Size(p) - 1).score_
        temp_fitness == [i \in DOMAIN p.individuals_ |->
                            best_score + worst_score - p.individuals_[i].score_]
        fitness_sum == SumOf(temp_fitness)
    IN  [p EXCEPT !.individuals_ =
            [i \in DOMAIN p.individuals_ |->
                [p.individuals_[i] EXCEPT
                    !.fitness_ = [num |-> temp_fitness[i], den |-> fitness_sum]]]]

\* Population::Evaluate, given the scores the fitness function returns for
\* the individuals in turn: the populations it can leave.
Evaluate(p, scores) ==
    LET scored == [p EXCEPT !.individuals_ =
                    [i \in DOMAIN p.individuals_ |->
                        [p.individuals_[i] EXCEPT !.score_ = scores[i]]]]
    IN  {EvaluateFitness(sorted) : sorted \in Sort(scored)}

\* Population::Resize: the individuals added are Randomize()d; |bytes| are
\* the bytes drawn for the new individuals in turn.
PopulationResize(p, g, size, chromosomes) ==
    IF Len(p.individuals_) >= size
    THEN [p EXCEPT !.individuals_ = SubSeq(p.individuals_, 1, size)]
    ELSE [p EXCEPT !.individuals_ =
            p.individuals_
            \o [i \in 1..(size - Len(p.individuals_)) |-> NewIndividual(chromosomes[i])]]

\* Population::RankSelect
RankSelect(p) == GetBestIndividual(p)

\* Population::UniformSelect, given the index RandomInteger draws.
UniformSelect(p, index) == At(p.individuals_, index)

\* temp.GetFitness() > selected->GetFitness() on the doubles num / den:
\* 0 / 0 is not a number and compares false, x / 0 is an infinity.
FitnessGreater(a, b) ==
    IF (a.den = 0 /\ a.num = 0) \/ (b.den = 0 /\ b.num = 0) THEN FALSE
    ELSE IF a.den = 0 /\ b.den = 0 THEN a.num > 0 /\ b.num < 0
    ELSE IF a.den = 0 THEN a.num > 0
    ELSE IF b.den = 0 THEN b.num < 0
    ELSE (a.num * b.den - b.num * a.den) * (a.den * b.den) > 0

\* The loop of TournamentSelect: |selected| is the index in individuals_ of
\* the winner so far, -1 for the null pointer.
RECURSIVE TournamentSelectLoop(_, _, _, _)
TournamentSelectLoop(p, draws, i, selected) ==
    IF i > Len(draws) THEN selected
    ELSE TournamentSelectLoop(p, draws, i + 1,
            IF selected = -1
               \/ FitnessGreater(UniformSelect(p, draws[i]).fitness_,
                                 UniformSelect(p, selected).fitness_)
            THEN draws[i] ELSE selected)

\* Population::TournamentSelect with tournament_size > 0, given the indices
\* UniformSelect draws: the index in individuals_ of the one returned.
TournamentSelect(p, tournament_size, draws) ==
    TournamentSelectLoop(p, SubSeq(draws, 1, tournament_size), 1, -1)

\* Population::InitializePartialSums on a sorted population whose fitness
\* values are all over one den: the running sums of the fitness values in
\* sorted order, each divided by the last one.  A den of 0 makes every
\* fitness an infinity or not a number, and every quotient not a number.
InitializePartialSums(p) ==
    LET den == GetIndividual(p, 0).fitness_.den
        sums == [i \in DOMAIN p.individuals_ |->
                    SumOf([j \in 1..i |-> GetIndividual(p, j - 1).fitness_.num])]
        max_value == sums[Len(sums)]
    IN  [p EXCEPT !.partial_sums_ =
            [i \in DOMAIN p.individuals_ |->
                IF den = 0 THEN [num |-> 0, den |-> 0]
                ELSE [num |-> sums[i], den |-> max_value]]]

\* The binary search of RouletteWheelSelect in size_t arithmetic: lower as
\* the loop leaves it, the indices of partial_sums_ it read, and whether it
\* read outside partial_sums_, where the search is cut short.
RECURSIVE RouletteWheelSearch(_, _, _, _, _)
RouletteWheelSearch(p, cutoff, lower, upper, reads) ==
    IF ~(upper >= lower)
    THEN [lower |-> lower, reads |-> reads, outside |-> FALSE]
    ELSE
        LET i == (lower + (upper - lower) \div 2) % (SizeMax + 1)
        IN  IF i >= Len(p.partial_sums_)
            THEN [lower |-> lower, reads |-> reads \cup {i}, outside |-> TRUE]
            ELSE IF FitnessGreater(At(p.partial_sums_, i), cutoff)
            THEN RouletteWheelSearch(p, cutoff, lower,
                                     (i + SizeMax) % (SizeMax + 1), reads \cup {i})
            ELSE RouletteWheelSearch(p, cutoff, (i + 1) % (SizeMax + 1),
                                     upper, reads \cup {i})

\* Population::RouletteWheelSelect, given the cutoff RandomFloat draws:
\* the sorted index of the individual it returns, with the reads made.
RouletteWheelSelect(p, cutoff) ==
    LET found == RouletteWheelSearch(p, cutoff, 0, Size(p) - 1, {})
    IN  [index |-> Min(Size(p) - 1, found.lower),
         reads |-> found.reads, outside |-> found.outside]

---------------------------------------------------------------------------
(* SpecPopulation: a Population resized and evaluated again and again.     *)

MaxPopulationSize == 3

MaxEvaluations == 2

\* The scores a fitness function returns: negative, zero, equal, positive.
Scores == {-2, -1, 0, 1, 3}

PopulationGenome == BuildGenome(<<3>>, 1)

InitPopulation ==
    /\ pc = "init"
    /\ genome = PopulationGenome
    /\ population = [individuals_ |-> <<>>, partial_sums_ |-> <<>>, sorted_indices_ |-> <<>>,
                     is_sorted_ |-> FALSE]
    /\ args = [evaluations |-> 0]
    /\ ret = 0
    /\ bv = NewBitVector(0)
    /\ pre = bv
    /\ rhs = bv
    /\ offspring = bv
    /\ ga = [currentGeneration |-> 0]

\* population.Resize(size, &random)
CallPopulationResize ==
    /\ pc \in {"init", "Evaluate"}
    /\ args.evaluations < MaxEvaluations
    /\ \E size \in 1..MaxPopulationSize :
          /\ size # Size(population)
          /\ population' =
                PopulationResize(population, genome, size,
                    [i \in 1..MaxPopulationSize |->
                        RandomizedChromosome(genome, PatternA)])
    /\ pc' = "Resize"
    /\ UNCHANGED <<args, bv, pre, rhs, ret, genome, offspring, ga>>

\* population.Evaluate(fitness_function, user_data)
CallEvaluate ==
    /\ pc \in {"Resize", "Evaluate"}
    /\ args.evaluations < MaxEvaluations
    /\ \E scores \in [1..Size(population) -> Scores] :
          population' \in Evaluate(population, scores)
    /\ args' = [args EXCEPT !.evaluations = @ + 1]
    /\ pc' = "Evaluate"
    /\ UNCHANGED <<bv, pre, rhs, ret, genome, offspring, ga>>

NextPopulation == CallPopulationResize \/ CallEvaluate

SpecPopulation == InitPopulation /\ [][NextPopulation]_vars

\* C6: after Evaluate on a population of at least one individual,
\* sorted_indices_ is a permutation of 0..Size()-1, the scores of
\* GetIndividual(0), GetIndividual(1), ... never decrease, and the best
\* individual, GetIndividual(0), has the minimum score of the population.
C6_SortedByScore ==
    pc = "Evaluate" =>
        /\ Len(population.sorted_indices_) = Size(population)
        /\ {population.sorted_indices_[i] : i \in DOMAIN population.sorted_indices_}
             = 0..(Size(population) - 1)
        /\ \A i \in 0..(Size(population) - 2) :
              GetIndividual(population, i).score_
                <= GetIndividual(population, i + 1).score_
        /\ \A i \in DOMAIN population.individuals_ :
              GetBestIndividual(population).score_ <= population.individuals_[i].score_

\* A population of three evaluated a second time, whose sorted view is not
\* the order of the individuals.
C6_Witness ==
    /\ pc = "Evaluate"
    /\ args.evaluations = 2
    /\ Size(population) = 3
    /\ population.sorted_indices_ = <<2, 0, 1>>
    /\ GetIndividual(population, 0).score_ < GetIndividual(population, 1).score_
    /\ GetIndividual(population, 1).score_ = GetIndividual(population, 2).score_

\* A fitness num / den is a number that is at least 0.
FitnessAtLeastZero(fitness) ==
    \/ fitness.den > 0 /\ fitness.num >= 0
    \/ fitness.den < 0 /\ fitness.num <= 0

\* The fitness values num / den, all over one den, add up to 1.
FitnessSumsToOne(individuals) ==
    /\ \A i \in DOMAIN individuals :
          individuals[i].fitness_.den = individuals[1].fitness_.den
    /\ individuals[1].fitness_.den # 0
    /\ SumOf([i \in DOMAIN individuals |-> individuals[i].fitness_.num])
         = individuals[1].fitness_.den

\* C7: after Evaluate on a population of at least one individual, whatever
\* scores the fitness function returns (zero, equal or negative ones
\* included), every fitness is at least 0 and the fitness values sum to 1.
C7_FitnessNormalized ==
    pc = "Evaluate" =>
        /\ \A i \in DOMAIN population.individuals_ :
              FitnessAtLeastZero(population.individuals_[i].fitness_)
        /\ FitnessSumsToOne(population.individuals_)

\* C7, the failing inputs: scores that are all 0 leave 0 / 0 as every
\* fitness, and a negative score can leave a negative fitness.
C7_Witness ==
    /\ pc = "Evaluate"
    /\ Size(population) = 1
    /\ population.individuals_[1].score_ = 0
    /\ population.individuals_[1].fitness_ = [num |-> 0, den |-> 0]

\* The same when no score is negative and some score is not zero.
C7_NormalizedForPositiveScores ==
    (/\ pc = "Evaluate"
     /\ \A i \in DOMAIN population.individuals_ : population.individuals_[i].score_ >= 0
     /\ \E i \in DOMAIN population.individuals_ : population.individuals_[i].score_ > 0)
    =>  /\ \A i \in DOMAIN population.individuals_ :
              FitnessAtLeastZero(population.individuals_[i].fitness_)
        /\ FitnessSumsToOne(population.individuals_)

\* C26: whenever the population is marked sorted, for every i that passes
\* the checks of GetIndividual (i < sorted_indices_.size()), sorted_indices_
\* is a permutation of 0..Size()-1 in ascending score order: GetIndividual(i)
\* is an existing individual and GetBestIndividual() has the minimum score,
\* after a Resize that follows a Sort too.
C26_SortedViewNeverStale ==
    (population.is_sorted_ /\ population.sorted_indices_ # <<>>
     /\ population.individuals_ # <<>>)
    => /\ \A i \in DOMAIN population.sorted_indices_ :
             population.sorted_indices_[i] < Size(population)
       /\ Len(population.sorted_indices_) = Size(population)
       /\ {population.sorted_indices_[i] : i \in DOMAIN population.sorted_indices_}
            = 0..(Size(population) - 1)
       /\ \A i \in 0..(Size(population) - 2) :
             GetIndividual(population, i).score_
               <= GetIndividual(population, i + 1).score_
       /\ \A i \in DOMAIN population.individuals_ :
             GetBestIndividual(population).score_ <= population.individuals_[i].score_

\* C26, the failing input: three individuals evaluated, the last one the
\* best, then Resize(1).  The population is still marked sorted and
\* GetIndividual(0), which passes its checks, reads individuals_[2] of a
\* vector of one individual.
C26_Witness ==
    /\ pc = "Resize"
    /\ population.is_sorted_
    /\ Size(population) = 1
    /\ population.sorted_indices_ = <<2, 0, 1>>
    /\ population.sorted_indices_[1] >= Size(population)

\* a >= b on the doubles num / den: 0 / 0 is not a number and compares
\* false, x / 0 is an infinity.
FitnessAtLeast(a, b) ==
    IF (a.den = 0 /\ a.num = 0) \/ (b.den = 0 /\ b.num = 0) THEN FALSE
    ELSE IF a.den = 0 /\ b.den = 0 THEN a.num > 0 \/ b.num < 0
    ELSE IF a.den = 0 THEN a.num > 0
    ELSE IF b.den = 0 THEN b.num < 0
    ELSE (a.num * b.den - b.num * a.den) * (a.den * b.den) >= 0

\* C22: after Evaluate, for any two individuals a and b of the population,
\* score(a) < score(b) implies fitness(a) >= fitness(b), whatever scores the
\* fitness function returns (positive, zero or negative).
C22_LowerScoreHigherFitness ==
    pc = "Evaluate" =>
        \A a, b \in DOMAIN population.individuals_ :
            population.individuals_[a].score_ < population.individuals_[b].score_
            => FitnessAtLeast(population.individuals_[a].fitness_,
                              population.individuals_[b].fitness_)

\* C22, the failing input: scores -2 and -1.  The intermediate values are
\* -1 and -2 and their sum is -3: the individual with the lower score gets
\* fitness 1/3 and the other one 2/3.
C22_Witness ==
    /\ pc = "Evaluate"
    /\ Size(population) = 2
    /\ GetIndividual(population, 0).score_ = -2
    /\ GetIndividual(population, 1).score_ = -1
    /\ GetIndividual(population, 0).fitness_ = [num |-> -1, den |-> -3]
    /\ GetIndividual(population, 1).fitness_ = [num |-> -2, den |-> -3]

\* C22 when no score is negative and some score is not zero: the sum of the
\* intermediate values is positive and the order is kept.
C22_OrderForPositiveScores ==
    (/\ pc = "Evaluate"
     /\ \A i \in DOMAIN population.individuals_ : population.individuals_[i].score_ >= 0
     /\ \E i \in DOMAIN population.individuals_ : population.individuals_[i].score_ > 0)
    => \A a, b \in DOMAIN population.individuals_ :
          population.individuals_[a].score_ < population.individuals_[b].score_
          => FitnessAtLeast(population.individuals_[a].fitness_,
                            population.individuals_[b].fitness_)

---------------------------------------------------------------------------
(* SpecSelect: selection from a Population that was resized and evaluated. *)

\* population.TournamentSelect(tournament_size, &random): |ret| keeps the
\* tournament size and the index in individuals_ of the one returned.
CallTournamentSelect ==
    /\ pc = "Evaluate"
    /\ \E tournament_size \in 1..Size(population) :
       \E draws \in [1..tournament_size -> 0..(Size(population) - 1)] :
          ret' = [tournament_size |-> tournament_size,
                  index |-> TournamentSelect(population, tournament_size, draws)]
    /\ pc' = "TournamentSelect"
    /\ UNCHANGED <<args, bv, pre, rhs, genome, offspring, population, ga>>

\* population.InitializePartialSums()
CallInitializePartialSums ==
    /\ pc = "Evaluate"
    /\ population' = InitializePartialSums(population)
    /\ pc' = "InitializePartialSums"
    /\ UNCHANGED <<args, bv, pre, rhs, ret, genome, offspring, ga>>

\* Cutoffs RandomFloat(0.0, 1.0) draws, as fractions num / den.
Cutoffs ==
    {[num |-> 0, den |-> 1], [num |-> 1, den |-> 3], [num |-> 1, den |-> 2],
     [num |-> 9, den |-> 10]}

\* population.RouletteWheelSelect(&random).  A search that reads outside
\* partial_sums_ faults, or goes on over the bytes it finds there and ends
\* above the array, where the clamp gives the last index.
CallRouletteWheelSelect ==
    /\ pc = "InitializePartialSums"
    /\ \E cutoff \in Cutoffs :
          LET result == RouletteWheelSelect(population, cutoff)
          IN  \/ /\ ~result.outside
                 /\ ret' = [cutoff |-> cutoff, index |-> result.index,
                            reads |-> result.reads]
                 /\ pc' = "RouletteWheelSelect"
              \/ /\ result.outside
                 /\ ret' = [cutoff |-> cutoff, index |-> Size(population) - 1,
                            reads |-> result.reads]
                 /\ pc' = "RouletteWheelSelect"
              \/ /\ result.outside
                 /\ ret' = [cutoff |-> cutoff, index |-> Size(population) - 1,
                            reads |-> result.reads]
                 /\ pc' = "RouletteWheelFault"
    /\ UNCHANGED <<args, bv, pre, rhs, genome, offspring, population, ga>>

NextSelect ==
    \/ CallPopulationResize \/ CallEvaluate \/ CallTournamentSelect
    \/ CallInitializePartialSums \/ CallRouletteWheelSelect

SpecSelect == InitPopulation /\ [][NextSelect]_vars

\* Individual |index| of individuals_ is a most fit one of the population.
MostFit(p, index) ==
    \A other \in DOMAIN p.individuals_ :
        ~FitnessGreater(p.individuals_[other].fitness_,
                        At(p.individuals_, index).fitness_)

\* C16: with tournament size n equal to the population size,
\* TournamentSelect(n, rng) returns the most fit individual of the
\* population, the one RankSelect returns, for every outcome of the draws.
C16_TournamentOfAllIsRank ==
    (pc = "TournamentSelect" /\ ret.tournament_size = Size(population)) =>
        /\ MostFit(population, ret.index)
        /\ ~FitnessGreater(RankSelect(population).fitness_,
                           At(population.individuals_, ret.index).fitness_)

\* C16, the failing input: two individuals with scores 0 and 1, so with
\* fitness 1 and 0; both draws of a tournament of 2 pick the second one.
C16_Witness ==
    /\ pc = "TournamentSelect"
    /\ Size(population) = 2
    /\ ret.tournament_size = 2
    /\ population.individuals_[1].score_ = 0
    /\ population.individuals_[2].score_ = 1
    /\ population.individuals_[1].fitness_ = [num |-> 1, den |-> 1]
    /\ population.individuals_[2].fitness_ = [num |-> 0, den |-> 1]
    /\ ret.index = 1

\* A tournament returns an individual that no drawn individual beats, and
\* a tournament of 1 returns the one drawn.
C16_TournamentWinner ==
    pc = "TournamentSelect" =>
        /\ ret.index \in 0..(Size(population) - 1)
        /\ (Size(population) = 1 => MostFit(population, ret.index))

\* The sorted index RouletteWheelSelect is to return: the smallest one whose
\* partial sum exceeds the cutoff, the last index when none does.
FirstAbove(p, cutoff) ==
    LET above == {i \in 0..(Size(p) - 1) :
                    FitnessGreater(At(p.partial_sums_, i), cutoff)}
    IN  IF above = {} THEN Size(p) - 1
        ELSE CHOOSE i \in above : \A j \in above : i <= j

\* C17: RouletteWheelSelect on n >= 1 individuals with initialized partial
\* sums returns for every cutoff in [0, 1), reads partial_sums_ only at
\* indices in [0, n), and returns the individual at the smallest sorted
\* index whose partial sum exceeds the cutoff, or at n-1 when none does,
\* also when the answer is index 0 and when n = 1.
C17_RouletteWheelInBounds ==
    /\ pc # "RouletteWheelFault"
    /\ pc = "RouletteWheelSelect" =>
          /\ ret.reads \subseteq 0..(Size(population) - 1)
          /\ ret.index = FirstAbove(population, ret.cutoff)

\* C17, the failing input: one individual, whose partial sum 1 exceeds the
\* cutoff 0; upper wraps to the maximum size_t and the search reads
\* partial_sums_ at half of that index.
C17_Witness ==
    /\ pc = "RouletteWheelFault"
    /\ Size(population) = 1
    /\ population.partial_sums_ = <<[num |-> 1, den |-> 1]>>
    /\ ret.cutoff = [num |-> 0, den |-> 1]
    /\ ret.reads = {0, SizeMax \div 2}

\* The same when the first partial sum does not exceed the cutoff and the
\* partial sums never decrease.
C17_InBoundsAboveFirst ==
    (/\ pc \in {"RouletteWheelSelect", "RouletteWheelFault"}
     /\ ~FitnessGreater(population.partial_sums_[1], ret.cutoff)
     /\ \A i \in 1..(Size(population) - 1) :
           ~FitnessGreater(population.partial_sums_[i], population.partial_sums_[i + 1]))
    =>  /\ pc = "RouletteWheelSelect"
        /\ ret.reads \subseteq 0..(Size(population) - 1)
        /\ ret.index = FirstAbove(population, ret.cutoff)

---------------------------------------------------------------------------
(* GeneticAlgorithm: two generations of individuals and the Step that      *)
(* builds one from the other.  A rate is the pair <<num, den>> of the      *)
(* fraction num / den.                                                      *)

\* The product bit_count * rate with its fraction cut off.
TruncatedProduct(bit_count, rate) == (bit_count * rate[1]) \div rate[2]

\* std::llround(bit_count * rate): halves round away from zero.
LlroundOfProduct(bit_count, rate) ==
    (2 * bit_count * rate[1] + rate[2]) \div (2 * rate[2])

\* GeneticAlgorithm::GetCurrentMutationRate for the Constant and the
\* Proportional schedule.
GetCurrentMutationRate(g, engine) ==
    IF engine.mutationRateSchedule = "Proportional"
    THEN <<engine.proportionalMutationBitCount, BitsRequired(g)>>
    ELSE engine.mutationRate

\* GeneticAlgorithm::Mutate with MutatorType::Flip: the individuals it can
\* leave, one for each choice of the indices to flip.
Mutate(individual, mutationPercentage) ==
    {WithBitVector(individual, FlipMutator(AsBitVector(individual), indices)) :
        indices \in [1..LlroundOfProduct(individual.bit_count_, mutationPercentage)
                     -> 0..(individual.bit_count_ - 1)]}

\* The number of cut points CrossoverInternal asks KPointCrossover for.
CrossoverPointCount(engine) ==
    CASE engine.crossoverType = "OnePoint" -> 1
      [] engine.crossoverType = "TwoPoint" -> 2
      [] OTHER -> engine.kPointCrossoverPointCount

\* GeneticAlgorithm::Crossover: the results [chromosome, fault] it can have,
\* one for each outcome of the random draws.
Crossover(engine, g, parent1, parent2, offspring_in, asserts, adjacent) ==
    IF asserts /\ parent1.bit_count_ # parent2.bit_count_
    THEN {[chromosome |-> offspring_in, fault |-> TRUE]}
    ELSE IF engine.crossoverType = "Uniform"
    THEN IF engine.crossoverIgnoreGeneBoundaries
         THEN {UniformCrossover(parent1, parent2, offspring_in, g,
                                [coins |-> <<>>, masks |-> masks], TRUE,
                                asserts, adjacent) :
                  masks \in [1..Len(Resize(offspring_in, parent1.bit_count_).bytes_)
                             -> MaskBytes]}
         ELSE {UniformCrossover(parent1, parent2, offspring_in, g,
                                [coins |-> coins, masks |-> <<>>], FALSE,
                                asserts, adjacent) :
                  coins \in [1..GetGeneCount(g) -> BOOLEAN]}
    ELSE {KPointCrossover(CrossoverPointCount(engine), parent1, parent2,
                          offspring_in, g, cuts,
                          engine.crossoverIgnoreGeneBoundaries, asserts, adjacent) :
             cuts \in CutPoints(CrossoverPointCount(engine),
                                IF engine.crossoverIgnoreGeneBoundaries
                                THEN parent1.bit_count_
                                ELSE GetGeneCount(g))}

\* One pass of the offspring loop of Step on the individual |slot|: the
\* results [individual, fault] it can have.  Parents are drawn by
\* Population::UniformSelect, twice.
CreateOffspring(engine, g, last, slot, asserts, adjacent) ==
    UNION {
        LET parents_first == last[first]
            parents_second == last[second]
            crossed ==
                IF coin
                THEN {[individual |-> WithBitVector(slot, r.chromosome),
                       fault |-> r.fault] :
                         r \in Crossover(engine, g, AsBitVector(parents_first),
                                         AsBitVector(parents_second),
                                         AsBitVector(slot), asserts, adjacent)}
                ELSE {[individual |-> IndividualAssign(slot, parents_first),
                       fault |-> FALSE]}
        IN  UNION {IF c.fault
                   THEN {c}
                   ELSE {[individual |-> m, fault |-> FALSE] :
                            m \in Mutate(c.individual,
                                         GetCurrentMutationRate(g, engine))} :
                   c \in crossed} :
        first \in DOMAIN last, second \in DOMAIN last, coin \in BOOLEAN}

\* Step without its two elitism loops: every individual is an offspring.
NewIndividualWithoutElites(engine, g, last, slot, index, asserts, adjacent) ==
    CreateOffspring(engine, g, last, slot, asserts, adjacent)

\* What Step can put in the individual at index |index| of the new
\* generation: an elite, a mutated elite or an offspring.
NewIndividualAt(engine, g, last, slot, index, asserts, adjacent) ==
    IF index < engine.eliteCount
    THEN {[individual |-> IndividualAssign(slot, At(last, index)), fault |-> FALSE]}
    ELSE IF index < engine.eliteCount + engine.mutatedEliteCount
    THEN {[individual |-> m, fault |-> FALSE] :
            m \in Mutate(IndividualAssign(slot, At(last, index - engine.eliteCount)),
                         engine.mutatedEliteMutationRate)}
    ELSE CreateOffspring(engine, g, last, slot, asserts, adjacent)

\* The first |count| individuals of the new generation: the results
\* [individuals, fault] Step can have after filling them.
RECURSIVE NewGeneration(_, _, _, _, _, _, _)
NewGeneration(engine, g, last, slots, count, asserts, adjacent) ==
    IF count = 0
    THEN {[individuals |-> <<>>, fault |-> FALSE]}
    ELSE
        LET filled_at_index == NewIndividualAt(engine, g, last, slots[count],
                                               count - 1, asserts, adjacent)
            filled_before == NewGeneration(engine, g, last, slots, count - 1,
                                           asserts, adjacent)
        IN  UNION {
                IF before.fault
                THEN {before}
                ELSE {[individuals |-> Append(before.individuals, filled.individual),
                       fault |-> filled.fault] : filled \in filled_at_index} :
                before \in filled_before}

\* TestObjective: the Hamming distance of the individual to the target.
FitnessFunction(g, individual) ==
    HammingDistance(NewChromosome(g), AsBitVector(individual))

\* The arrangements std::sort can leave the individuals in.
SortedPopulations(individuals) ==
    {[i \in DOMAIN individuals |-> At(individuals, sorted[i])] :
        sorted \in SortedArrangements(individuals,
                                      [i \in DOMAIN individuals |-> i - 1])}

\* The two fitness loops of GeneticAlgorithm::Evaluate on sorted individuals.
FitnessOfSorted(individuals) ==
    LET bestScore == individuals[1].score_
        worstScore == individuals[Len(individuals)].score_
        tempScore == [i \in DOMAIN individuals |->
                        bestScore + worstScore - individuals[i].score_]
        scoreSum == SumOf(tempScore)
    IN  [i \in DOMAIN individuals |->
            [individuals[i] EXCEPT !.fitness_ = [num |-> tempScore[i],
                                                 den |-> scoreSum]]]

\* GeneticAlgorithm::Evaluate: the populations it can leave.
EvaluatePopulation(g, individuals) ==
    {FitnessOfSorted(sorted) :
        sorted \in SortedPopulations(
            [i \in DOMAIN individuals |->
                [individuals[i] EXCEPT !.score_ = FitnessFunction(g, individuals[i])]])}

\* GeneticAlgorithm::Initialize: |chromosomes| are the Randomize()d
\* chromosomes of the individuals of the first population.
Initialize(engine, g, chromosomes) ==
    [engine EXCEPT
        !.population =
            [i \in 1..engine.populationSize |-> NewIndividual(chromosomes[i])],
        !.lastGenerationPopulation =
            [i \in 1..engine.populationSize |-> NewIndividual(NewChromosome(g))],
        !.currentGeneration = 0]

\* this->_currentGeneration++ without the increment.
SameGeneration(currentGeneration) == currentGeneration

\* this->_currentGeneration++
NextGeneration(currentGeneration) == currentGeneration + 1

\* The indices of _population Step writes: currentNewIndividual counts up
\* through the elites and the mutated elites, then up to the population size.
StepWrites(engine) ==
    0..(Max(engine.eliteCount + engine.mutatedEliteCount, engine.populationSize) - 1)

\* The indices of _lastGenerationPopulation the two elitism loops read.
StepEliteReads(engine) ==
    0..(Max(engine.eliteCount, engine.mutatedEliteCount) - 1)

\* Step indexes one of the two vectors past its end.
StepOutOfBounds(engine) ==
    \/ \E i \in StepWrites(engine) : i >= engine.populationSize
    \/ \E i \in StepEliteReads(engine) : i >= engine.populationSize

\* Step when every index lies inside the two vectors, and what it leaves in
\* them when some index does not.
StepInBounds(engine, g, asserts, adjacent) ==
    UNION {
        {[engine |-> [engine EXCEPT
                        !.currentGeneration = NextGeneration(@),
                        !.population = built.individuals
                            \o SubSeq(engine.lastGenerationPopulation,
                                      Len(built.individuals) + 1,
                                      engine.populationSize),
                        !.lastGenerationPopulation = evaluated],
          fault |-> built.fault] :
            built \in NewGeneration(engine, g, evaluated,
                                    engine.lastGenerationPopulation,
                                    engine.populationSize, asserts, adjacent)} :
        evaluated \in EvaluatePopulation(g, engine.population)}

\* GeneticAlgorithm::Step: the results [engine, fault] it can have.  An
\* index past the end of a vector is a pointer read from the memory after
\* it: the program stops there, or goes on with the two vectors as the
\* accesses inside them left them.
Step(engine, g, asserts, adjacent) ==
    IF StepOutOfBounds(engine)
    THEN LET returned == StepInBounds(engine, g, asserts, adjacent)
         IN  returned \cup {[r EXCEPT !.fault = TRUE] : r \in returned}
    ELSE StepInBounds(engine, g, asserts, adjacent)

\* The condition of the loop of Run with the bound included.
RunContinuesAtTotal(engine) == engine.currentGeneration <= engine.totalGenerations

\* The condition of the loop of Run.
RunContinues(engine) == engine.currentGeneration < engine.totalGenerations

\* GeneticAlgorithm::Run: the results [engine, fault, steps] it can have,
\* |steps| being the number of calls of Step it made.
RECURSIVE Run(_, _, _, _)
Run(engine, g, asserts, adjacent) ==
    IF ~RunContinues(engine)
    THEN {[engine |-> engine, fault |-> FALSE, steps |-> 0]}
    ELSE
        LET stepped == Step(engine, g, asserts, adjacent)
        IN  UNION {
                IF s.fault
                THEN {[engine |-> s.engine, fault |-> TRUE, steps |-> 1]}
                ELSE {[engine |-> r.engine, fault |-> r.fault, steps |-> r.steps + 1] :
                        r \in Run(s.engine, g, asserts, adjacent)} :
                s \in stepped}

---------------------------------------------------------------------------
(* SpecGA: Initialize, then Step after Step.                               *)

MaxGenerations == 2

PopulationSize == 2

\* Sized genes only, sized and boolean genes, boolean genes only.
EngineGenomes ==
    {BuildGenome(<<2>>, 0), BuildGenome(<<1>>, 1), BuildGenome(<<>>, 2)}

CrossoverTypes == {"OnePoint", "TwoPoint", "KPoint", "Uniform"}

\* <<elite count, mutated elite count>>
EliteCounts == {<<0, 0>>, <<1, 0>>, <<0, 1>>, <<2, 0>>, <<1, 1>>}

\* The rates of SetMutatedEliteMutationRate: the 0.0 of the constructor and
\* the 0.5 of TestSolveMatchingProblem.
MutatedEliteMutationRates == {<<0, 1>>, <<1, 2>>}

\* GeneticAlgorithm::GeneticAlgorithm() and the setters of
\* TestSolveMatchingProblem.
NewGeneticAlgorithm ==
    [currentGeneration |-> 0,
     totalGenerations |-> 0,
     populationSize |-> PopulationSize,
     eliteCount |-> 0,
     mutatedEliteCount |-> 0,
     mutationRate |-> <<1, 20>>,
     mutatedEliteMutationRate |-> <<1, 2>>,
     mutationRateSchedule |-> "Proportional",
     proportionalMutationBitCount |-> 1,
     crossoverType |-> "Uniform",
     kPointCrossoverPointCount |-> 3,
     crossoverIgnoreGeneBoundaries |-> TRUE,
     population |-> <<>>,
     lastGenerationPopulation |-> <<>>]

\* A GeneticAlgorithm configured and not yet initialized.  args.asserts
\* tells whether the build keeps its assertions, args.steps counts the calls
\* of Step since Initialize.
InitGA ==
    /\ pc = "new"
    /\ genome \in EngineGenomes
    /\ \E crossoverType \in CrossoverTypes,
          crossoverIgnoreGeneBoundaries \in BOOLEAN,
          elites \in EliteCounts,
          mutatedEliteMutationRate \in MutatedEliteMutationRates :
          /\ elites[2] = 0 => mutatedEliteMutationRate = <<1, 2>>
          /\ ga = [NewGeneticAlgorithm EXCEPT
                    !.crossoverType = crossoverType,
                    !.crossoverIgnoreGeneBoundaries = crossoverIgnoreGeneBoundaries,
                    !.eliteCount = elites[1],
                    !.mutatedEliteCount = elites[2],
                    !.mutatedEliteMutationRate = mutatedEliteMutationRate]
    /\ \E asserts \in BOOLEAN :
          args = [asserts |-> asserts, adjacent |-> <<0, 165>>, steps |-> 0]
    /\ population = [individuals_ |-> <<>>, partial_sums_ |-> <<>>, sorted_indices_ |-> <<>>,
                     is_sorted_ |-> FALSE]
    /\ ret = 0
    /\ bv = NewBitVector(0)
    /\ pre = bv
    /\ rhs = bv
    /\ offspring = bv

\* The chromosomes Randomize() gives the first population: each differs
\* from the one before it in every bit.
RandomizedChromosomes(g, size) ==
    [i \in 1..size |->
        RandomizedChromosome(g, IF i % 2 = 1 THEN PatternA ELSE PatternB)]

\* ga.Initialize()
CallInitialize ==
    /\ pc = "new"
    /\ ga' = Initialize(ga, genome, RandomizedChromosomes(genome, ga.populationSize))
    /\ pc' = "Initialize"
    /\ args' = [args EXCEPT !.steps = 0]
    /\ UNCHANGED <<bv, pre, rhs, ret, genome, offspring, population>>

\* ga.Step()
CallStep ==
    /\ pc \in {"Initialize", "Step"}
    /\ ga.currentGeneration < MaxGenerations
    /\ \E result \in Step(ga, genome, args.asserts, args.adjacent) :
          /\ ga' = result.engine
          /\ pc' = IF result.fault THEN "fault" ELSE "Step"
    /\ args' = [args EXCEPT !.steps = @ + 1]
    /\ UNCHANGED <<bv, pre, rhs, ret, genome, offspring, population>>

NextGA == CallInitialize \/ CallStep

SpecGA == InitGA /\ [][NextGA]_vars

\* C5: in every state reached by Initialize and any number of Steps, for
\* every crossover type, both settings of crossover_ignore_gene_boundaries
\* and every genome shape, every individual of both populations has
\* bit_count equal to genome.BitsRequired().
C5_BitCountIsBitsRequired ==
    pc \in {"Initialize", "Step"} =>
        /\ \A i \in DOMAIN ga.population :
              ga.population[i].bit_count_ = BitsRequired(genome)
        /\ \A i \in DOMAIN ga.lastGenerationPopulation :
              ga.lastGenerationPopulation[i].bit_count_ = BitsRequired(genome)

\* C5, the failing input: one-point crossover on gene boundaries in a
\* build without assertions leaves an offspring of BitsRequired() + 1 bits.
C5_Witness ==
    /\ pc = "Step"
    /\ ~args.asserts
    /\ ga.crossoverType = "OnePoint"
    /\ ~ga.crossoverIgnoreGeneBoundaries
    /\ genome = BuildGenome(<<2>>, 0)
    /\ \E i \in DOMAIN ga.population :
          ga.population[i].bit_count_ = BitsRequired(genome) + 1

\* The same when cut points and masks ignore the gene boundaries.
C5_BitCountWhenIgnoringGeneBoundaries ==
    (pc \in {"Initialize", "Step"} /\ ga.crossoverIgnoreGeneBoundaries) =>
        /\ \A i \in DOMAIN ga.population :
              ga.population[i].bit_count_ = BitsRequired(genome)
        /\ \A i \in DOMAIN ga.lastGenerationPopulation :
              ga.lastGenerationPopulation[i].bit_count_ = BitsRequired(genome)

\* C12: Initialize sets the generation counter to 0 and every Step adds
\* exactly 1 to it, so after Initialize and n calls of Step the counter is
\* n, for every crossover type, elite setting and genome.
C12_GenerationCounter ==
    /\ pc = "Initialize" => ga.currentGeneration = 0
    /\ pc \in {"Initialize", "Step", "fault"} => ga.currentGeneration = args.steps

\* C12: two calls of Step have returned and the counter is 2.
C12_Witness ==
    /\ pc = "Step"
    /\ args.steps = 2
    /\ ga.currentGeneration = 2

\* Individuals a and b hold the same bits.
SameBits(a, b) ==
    /\ a.bit_count_ = b.bit_count_
    /\ \A bit \in 0..(a.bit_count_ - 1) :
          Get(AsBitVector(a), bit) = Get(AsBitVector(b), bit)

\* The individuals of a generation are in rank order: by increasing score.
InRankOrder(individuals) ==
    \A i, j \in DOMAIN individuals :
        i <= j => individuals[i].score_ <= individuals[j].score_


\* GeneticAlgorithm::GetMinimumScore
GetMinimumScore(engine) == engine.lastGenerationPopulation[1].score_

\* C27: with elite_count >= 1 and a fitness function that depends on the
\* bits of the individual only, the minimum score reported after a Step is
\* never above the minimum score reported after the Step before it.
C27_MinimumScoreNeverIncreases ==
    [][(pc = "Step" /\ pc' = "Step" /\ ga.eliteCount >= 1)
       => GetMinimumScore(ga') <= GetMinimumScore(ga)]_vars

\* C27: after the second Step of an engine with one elite, the best
\* individual scores less than the other one, and the elite copied into the
\* new generation is that best individual.
C27_Witness ==
    /\ pc = "Step"
    /\ args.steps = 2
    /\ ga.eliteCount = 1
    /\ ga.mutatedEliteCount = 0
    /\ GetMinimumScore(ga) < ga.lastGenerationPopulation[2].score_
    /\ SameBits(ga.population[1], ga.lastGenerationPopulation[1])
    /\ FitnessFunction(genome, ga.population[1]) = GetMinimumScore(ga)

\* C14: after a Step with elite_count = e <= population size, the first e
\* individuals of the new population hold the same bits as the e
\* lowest-score individuals of the evaluated previous generation, in rank
\* order.
C14_ElitesCopied ==
    pc \in {"Step", "fault"} =>
        /\ InRankOrder(ga.lastGenerationPopulation)
        /\ \A i \in 1..ga.eliteCount :
              SameBits(ga.population[i], ga.lastGenerationPopulation[i])

\* C14: a second Step with two elites has copied both, and they differ.
C14_Witness ==
    /\ pc = "Step"
    /\ args.steps = 2
    /\ ga.eliteCount = 2
    /\ SameBits(ga.population[1], ga.lastGenerationPopulation[1])
    /\ SameBits(ga.population[2], ga.lastGenerationPopulation[2])
    /\ ~SameBits(ga.population[1], ga.population[2])

\* C15: after a Step with elite_count = e and mutated_elite_count = m, the
\* mutated elites are taken from ranks e .. e+m-1 of the evaluated previous
\* generation and mutated at mutated_elite_mutation_rate: with that rate 0
\* the new individuals at positions e .. e+m-1 hold the same bits as the
\* previous ranks e .. e+m-1.
C15_MutatedElitesFromNextRanks ==
    (pc \in {"Step", "fault"} /\ ga.mutatedEliteMutationRate = <<0, 1>>) =>
        \A i \in 1..ga.mutatedEliteCount :
            SameBits(ga.population[ga.eliteCount + i],
                     ga.lastGenerationPopulation[ga.eliteCount + i])

\* C15, the failing input: one elite and one mutated elite at rate 0; the
\* individual at position 1 is a copy of rank 0, not of rank 1.
C15_Witness ==
    /\ pc = "Step"
    /\ ga.eliteCount = 1
    /\ ga.mutatedEliteCount = 1
    /\ ga.mutatedEliteMutationRate = <<0, 1>>
    /\ SameBits(ga.population[2], ga.lastGenerationPopulation[1])
    /\ ~SameBits(ga.population[2], ga.lastGenerationPopulation[2])

\* What the code gives: the mutated elites are copies of ranks 0 .. m-1.
C15_MutatedElitesFromFirstRanks ==
    (pc \in {"Step", "fault"} /\ ga.mutatedEliteMutationRate = <<0, 1>>) =>
        \A i \in 1..ga.mutatedEliteCount :
            SameBits(ga.population[ga.eliteCount + i],
                     ga.lastGenerationPopulation[i])

---------------------------------------------------------------------------
(* SpecRun: Initialize, some calls of Step, then Run.                      *)

MaxTotalGenerations == 2

\* A sized gene alone and a sized gene with a boolean gene.
RunGenomes == {BuildGenome(<<1>>, 0), BuildGenome(<<1>>, 1)}

RunCrossoverTypes == {"OnePoint", "Uniform"}

\* A GeneticAlgorithm configured with SetTotalGenerations and not yet
\* initialized.
InitRun ==
    /\ pc = "new"
    /\ genome \in RunGenomes
    /\ \E crossoverType \in RunCrossoverTypes,
          crossoverIgnoreGeneBoundaries \in BOOLEAN,
          totalGenerations \in 0..MaxTotalGenerations :
          ga = [NewGeneticAlgorithm EXCEPT
                    !.crossoverType = crossoverType,
                    !.crossoverIgnoreGeneBoundaries = crossoverIgnoreGeneBoundaries,
                    !.totalGenerations = totalGenerations]
    /\ \E asserts \in BOOLEAN :
          args = [asserts |-> asserts, adjacent |-> <<0, 165>>, steps |-> 0]
    /\ population = [individuals_ |-> <<>>, partial_sums_ |-> <<>>, sorted_indices_ |-> <<>>,
                     is_sorted_ |-> FALSE]
    /\ ret = 0
    /\ bv = NewBitVector(0)
    /\ pre = bv
    /\ rhs = bv
    /\ offspring = bv

\* ga.Run(): |pre| keeps the engine as it was at the call, |ret| the number
\* of calls of Step that Run made.
CallRun ==
    /\ pc \in {"Initialize", "Step"}
    /\ \E result \in Run(ga, genome, args.asserts, args.adjacent) :
          /\ ga' = result.engine
          /\ ret' = result.steps
          /\ pc' = IF result.fault THEN "RunFault" ELSE "Run"
    /\ pre' = ga
    /\ UNCHANGED <<args, bv, rhs, genome, offspring, population>>

NextRun == CallInitialize \/ CallStep \/ CallRun

SpecRun == InitRun /\ [][NextRun]_vars

C13_WitnessPastTotal ==
    /\ pc = "Run"
    /\ pre.currentGeneration = 2
    /\ pre.totalGenerations = 1
    /\ ret = 0


---------------------------------------------------------------------------
(* SpecCopy: a BitVector clipped or cleared, then copied into another one  *)
(* by SubVector or by assignment.  bv is the source ("this" of SubVector,  *)
(* the right-hand side of the assignment) and rhs is the destination.       *)

\* Sources: bit counts that are and are not a multiple of 8, with and
\* without a spare byte in the backing array.
CopySources ==
    {PatternVector(MaxBits - 8, PatternA, 0),
     PatternVector(MaxBits - 12, PatternA, 0),
     PatternVector(MaxBits - 16, PatternA, 1)}

\* Destinations: a new BitVector and vectors that hold other bits.
CopyDestinations ==
    {NewBitVector(0),
     PatternVector(MaxBits - 8, PatternB, 0),
     PatternVector(MaxBits - 12, PatternB, 0),
     PatternVector(MaxBits - 16, PatternB, 1)}

\* Bit counts given to Clip and SetBitCount.
CopyBitCounts == {0, 4, 8}

InitCopy ==
    /\ NoGeneticAlgorithm
    /\ pc = "init"
    /\ bv \in CopySources
    /\ rhs \in CopyDestinations
    /\ pre = rhs
    /\ ret = 0
    /\ \E source_start_bit_offset \in 0..bv.bit_count_ :
       \E bits_to_copy \in 0..(bv.bit_count_ - source_start_bit_offset) :
       \E destination_start_bit_offset \in 0..(MaxBits - 8) :
       \E adjacent \in AdjacentBytes :
          args = [source_start_bit_offset |-> source_start_bit_offset,
                  bits_to_copy |-> bits_to_copy,
                  destination_start_bit_offset |-> destination_start_bit_offset,
                  adjacent |-> adjacent]

\* bv.Clip(bit_count)
CallCopyClip ==
    /\ pc = "init"
    /\ \E bit_count \in CopyBitCounts :
          /\ bit_count <= bv.bit_count_
          /\ bv' = Clip(bv, bit_count)
    /\ pc' = "Clip"
    /\ UNCHANGED <<args, pre, rhs, ret, gaVars>>

\* bv.SetBitCount(bit_count)
CallSetBitCount ==
    /\ pc = "init"
    /\ \E bit_count \in CopyBitCounts : bv' = SetBitCount(bv, bit_count)
    /\ pc' = "SetBitCount"
    /\ UNCHANGED <<args, pre, rhs, ret, gaVars>>

\* bv.SubVector(&rhs, destination_start_bit_offset, source_start_bit_offset,
\*              bits_to_copy) of bits the source holds.
CallSubVector ==
    /\ pc \in {"init", "Clip", "SetBitCount"}
    /\ args.source_start_bit_offset + args.bits_to_copy <= bv.bit_count_
    /\ rhs' = SubVector(bv, rhs, args.destination_start_bit_offset,
                        args.source_start_bit_offset, args.bits_to_copy,
                        args.adjacent)
    /\ pre' = rhs
    /\ pc' = "SubVector"
    /\ UNCHANGED <<args, bv, ret, gaVars>>

\* The bytes std::copy_n writes in operator=: rhs.bytes_.size() bytes from
\* the start of bytes_, whatever size Resize left bytes_ with.
AssignWrites(v, rhs_v) == 0..(Len(rhs_v.bytes_) - 1)

\* operator= writes past the end of its own backing array.
AssignWritesOutside(v, rhs_v) ==
    \E i \in AssignWrites(v, rhs_v) : i >= Len(Resize(v, rhs_v.bit_count_).bytes_)

\* rhs = bv.  A copy that runs past the end of the destination's array
\* overwrites the memory after it: the program goes on, or stops.
CallAssign ==
    /\ pc \in {"init", "Clip", "SetBitCount"}
    /\ rhs' = Assign(rhs, bv)
    /\ pre' = rhs
    /\ \/ pc' = "Assign"
       \/ AssignWritesOutside(rhs, bv) /\ pc' = "AssignFault"
    /\ UNCHANGED <<args, bv, ret, gaVars>>

NextCopy == CallCopyClip \/ CallSetBitCount \/ CallSubVector \/ CallAssign

SpecCopy == InitCopy /\ [][NextCopy]_vars

\* C21: SubVector(dest, destStart, srcStart, width) leaves dest with
\* max(previous bit count, destStart + width) bits; bits destStart up to
\* destStart + width of dest are bits srcStart up to srcStart + width of the
\* source, and every other bit of dest below its previous bit count is
\* unchanged and below the new bit count.
C21_SubVectorFrame ==
    pc = "SubVector" =>
        /\ rhs.bit_count_ = Max(pre.bit_count_,
                                args.destination_start_bit_offset + args.bits_to_copy)
        /\ \A i \in 0..(args.bits_to_copy - 1) :
              Get(rhs, args.destination_start_bit_offset + i)
              = Get(bv, args.source_start_bit_offset + i)
        /\ \A i \in 0..(pre.bit_count_ - 1) :
              (i < args.destination_start_bit_offset
               \/ i >= args.destination_start_bit_offset + args.bits_to_copy)
              => (i < rhs.bit_count_ /\ Get(rhs, i) = Get(pre, i))

\* C21, the failing input: 4 bits copied to the start of a destination of 16
\* bits.  The destination comes back with 4 bits.
C21_Witness ==
    /\ pc = "SubVector"
    /\ pre.bit_count_ = 16
    /\ args.destination_start_bit_offset = 0
    /\ args.bits_to_copy = 4
    /\ rhs.bit_count_ = 4

\* C21, what SubVector does: the destination has destStart + width bits, the
\* range holds the source's bits and every other bit of the bytes the
\* destination had keeps its value.
C21_SubVectorSetsBitCount ==
    pc = "SubVector" =>
        /\ rhs.bit_count_ = args.destination_start_bit_offset + args.bits_to_copy
        /\ \A i \in 0..(args.bits_to_copy - 1) :
              Get(rhs, args.destination_start_bit_offset + i)
              = Get(bv, args.source_start_bit_offset + i)
        /\ \A i \in 0..(BitsPerByte * Len(pre.bytes_) - 1) :
              (i < args.destination_start_bit_offset
               \/ i >= args.destination_start_bit_offset + args.bits_to_copy)
              => Get(rhs, i) = Get(pre, i)

\* C29: the assignment a = b writes only inside a's backing array and
\* returns with a.GetBitCount() = b.GetBitCount() and a.Equals(b), for every
\* b, one whose backing array is longer than its bit count needs included.
C29_AssignSafe ==
    pc \in {"Assign", "AssignFault"} =>
        /\ ~AssignWritesOutside(pre, bv)
        /\ pc = "Assign"
        /\ rhs.bit_count_ = bv.bit_count_
        /\ Equals(rhs, bv)

\* C29, the failing input: b had 16 bits and was clipped to 8, a is a new
\* BitVector.  a is resized to one byte and two bytes are copied into it.
C29_Witness ==
    /\ pc = "AssignFault"
    /\ bv.bit_count_ = 8
    /\ Len(bv.bytes_) = 2
    /\ pre = NewBitVector(0)
    /\ Len(rhs.bytes_) = 1
    /\ 1 \in AssignWrites(pre, bv)

\* C29, the same after SetBitCount to a smaller size.
C29_WitnessSetBitCount ==
    /\ pc = "AssignFault"
    /\ bv = [bytes_ |-> <<0, 0>>, bit_count_ |-> 4]
    /\ pre = NewBitVector(0)

\* C29, when b's array is no longer than the array a is left with: the copy
\* stays inside a and a equals b.
C29_AssignWhenArrayFits ==
    (/\ pc \in {"Assign", "AssignFault"}
     /\ Len(bv.bytes_) <= Max(Len(pre.bytes_), BytesNeeded(bv.bit_count_)))
    => /\ pc = "Assign"
       /\ rhs.bit_count_ = bv.bit_count_
       /\ Equals(rhs, bv)

---------------------------------------------------------------------------
(* SpecDiversity: a Population resized once, then measured.                *)

\* Individual::HammingDistance is BitVector::HammingDistance of the two.
IndividualHammingDistance(a, b) == HammingDistance(AsBitVector(a), AsBitVector(b))

\* The nested loops of GetPopulationDiversity: the distances of individual i
\* to the individuals after it, for i and every individual after i, in
\* size_t arithmetic.
RECURSIVE DiversityDistance(_, _)
DiversityDistance(individuals, i) ==
    IF i > Len(individuals) THEN 0
    ELSE (SumOf([j \in 1..(Len(individuals) - i) |->
                    IndividualHammingDistance(individuals[i], individuals[i + j])])
          + DiversityDistance(individuals, i + 1)) % (SizeMax + 1)

\* Population::GetPopulationDiversity: the double distance / total_bits as
\* the pair of the two integers; total_bits = 0 is a division by zero.
GetPopulationDiversity(p, g) ==
    IF Len(p.individuals_) <= 1
    THEN [num |-> 0, den |-> 1]
    ELSE
        LET distance == DiversityDistance(p.individuals_, 1)
            genome_bits == BitsRequired(g)
            total_compares ==
                ((Len(p.individuals_) * (Len(p.individuals_) - 1)) % (SizeMax + 1))
                \div Pow2(2)
            total_bits == (total_compares * genome_bits) % (SizeMax + 1)
        IN  [num |-> distance, den |-> total_bits]

\* The bits Randomize() gives an individual: 0101, 1010, 0000 and 1111 on
\* the four bits of PopulationGenome.
DiversityPatterns ==
    {PatternA, PatternB, [i \in DOMAIN PatternA |-> 0],
     [i \in DOMAIN PatternA |-> MaxByteValue]}

\* population.Resize(size, &random) of the empty population
CallDiversityResize ==
    /\ pc = "init"
    /\ \E size \in 0..MaxPopulationSize :
       \E patterns \in [1..size -> DiversityPatterns] :
          population' =
              PopulationResize(population, genome, size,
                  [i \in 1..size |-> RandomizedChromosome(genome, patterns[i])])
    /\ pc' = "Resize"
    /\ UNCHANGED <<args, bv, pre, rhs, ret, genome, offspring, ga>>

\* population.GetPopulationDiversity()
CallGetPopulationDiversity ==
    /\ pc = "Resize"
    /\ ret' = GetPopulationDiversity(population, genome)
    /\ pc' = "GetPopulationDiversity"
    /\ UNCHANGED <<args, bv, pre, rhs, genome, offspring, population, ga>>

NextDiversity == CallDiversityResize \/ CallGetPopulationDiversity

SpecDiversity == InitPopulation /\ [][NextDiversity]_vars

\* The bits in which individuals a and b differ.
DifferingBits(a, b) ==
    Cardinality({bit \in 0..(a.bit_count_ - 1) :
                    Get(AsBitVector(a), bit) # Get(AsBitVector(b), bit)})

\* The sum of the Hamming distances over all unordered pairs of individuals.
PairDistanceSum(individuals) ==
    SumOf([k \in 1..(Len(individuals) * Len(individuals)) |->
            LET i == ((k - 1) \div Len(individuals)) + 1
                j == ((k - 1) % Len(individuals)) + 1
            IN  IF i < j THEN DifferingBits(individuals[i], individuals[j]) ELSE 0])

\* C23: GetPopulationDiversity() of n individuals over a genome of L bits
\* returns 0 when n <= 1, and otherwise the sum of the Hamming distances
\* over all unordered pairs divided by L * n * (n - 1) / 2: the denominator
\* is not zero (n = 2 included), the value lies between 0 and 1 and is 0
\* exactly when all individuals are identical.
C23_DiversityIsMeanDistance ==
    pc = "GetPopulationDiversity" =>
        LET n == Size(population)
            pairs == (n * (n - 1)) \div 2
            total == PairDistanceSum(population.individuals_)
        IN  IF n <= 1
            THEN ret.den # 0 /\ ret.num = 0
            ELSE /\ ret.den > 0
                 /\ ret.num * (BitsRequired(genome) * pairs) = total * ret.den
                 /\ 0 <= ret.num /\ ret.num <= ret.den
                 /\ ret.num = 0 <=> \A i \in 1..n : AsBitVector(population.individuals_[i])
                                                     = AsBitVector(population.individuals_[1])

\* C23, the failing input: two individuals that differ in all 4 bits.
\* total_compares is (2 * 1) >> 2 = 0 and the result is 4 / 0.
C23_Witness ==
    /\ pc = "GetPopulationDiversity"
    /\ Size(population) = 2
    /\ PairDistanceSum(population.individuals_) = 4
    /\ ret = [num |-> 4, den |-> 0]

\* C23, three individuals: one compare is counted where there are three,
\* and the result is 8 / 4.
C23_WitnessAboveOne ==
    /\ pc = "GetPopulationDiversity"
    /\ Size(population) = 3
    /\ PairDistanceSum(population.individuals_) = 8
    /\ ret = [num |-> 8, den |-> 4]

\* C23, what is returned: 0 for at most one individual, and otherwise the
\* sum of the pairwise distances over L * floor(n * (n - 1) / 4).
C23_DiversityOverQuarterOfPairs ==
    pc = "GetPopulationDiversity" =>
        LET n == Size(population)
        IN  IF n <= 1
            THEN ret.den # 0 /\ ret.num = 0
            ELSE /\ ret.num = PairDistanceSum(population.individuals_)
                 /\ ret.den = BitsRequired(genome) * ((n * (n - 1)) \div 4)

---------------------------------------------------------------------------
(* SpecMutate: one FlipMutator of a Chromosome.                            *)

\* The flips of one call are at most this many.
MaxMutatorFlips == 4

\* Chromosomes of 8 and of 3 bits.
MutateGenomes == {BuildGenome(<<8>>, 0), BuildGenome(<<2>>, 1)}

\* mutation_percentage: 0, rates whose product with the bit count is a whole
\* number, a half or neither, and a rate above 1.
MutationRates ==
    {<<0, 1>>, <<1, 16>>, <<1, 8>>, <<1, 4>>, <<3, 8>>, <<1, 2>>, <<5, 4>>, <<3, 2>>}

InitMutate ==
    /\ pc = "init"
    /\ genome \in MutateGenomes
    /\ bv \in {RandomizedChromosome(genome, PatternA),
                RandomizedChromosome(genome, PatternB)}
    /\ pre = bv
    /\ rhs = NewBitVector(0)
    /\ ret = 0
    /\ offspring = NewBitVector(0)
    /\ population = [individuals_ |-> <<>>, partial_sums_ |-> <<>>, sorted_indices_ |-> <<>>,
                     is_sorted_ |-> FALSE]
    /\ ga = [currentGeneration |-> 0]
    /\ \E mutation_percentage \in MutationRates :
          /\ LlroundOfProduct(bv.bit_count_, mutation_percentage) <= MaxMutatorFlips
          /\ args = [mutation_percentage |-> mutation_percentage, indices |-> <<>>]

\* Chromosome::FlipMutator(&bv, mutation_percentage, &random)
CallFlipMutator ==
    /\ pc = "init"
    /\ LET bit_count == bv.bit_count_
           bits_to_flip == LlroundOfProduct(bit_count, args.mutation_percentage)
       IN  \E indices \in [1..bits_to_flip -> 0..(bit_count - 1)] :
              /\ bv' = FlipMutator(bv, indices)
              /\ args' = [args EXCEPT !.indices = indices]
    /\ pre' = bv
    /\ pc' = "FlipMutator"
    /\ UNCHANGED <<rhs, ret, gaVars>>

NextMutate == CallFlipMutator

SpecMutate == InitMutate /\ [][NextMutate]_vars

C24_WitnessRateAboveOne ==
    /\ pc = "FlipMutator"
    /\ pre.bit_count_ = 3
    /\ args.mutation_percentage = <<5, 4>>
    /\ Len(args.indices) = 4
    /\ DifferingBits(pre, bv) = 2

\* C24: 8 * 1/16 = 0.5 rounds to one flip.
C24_WitnessHalf ==
    /\ pc = "FlipMutator"
    /\ pre.bit_count_ = 8
    /\ args.mutation_percentage = <<1, 16>>
    /\ Len(args.indices) = 1
    /\ DifferingBits(pre, bv) = 1

---------------------------------------------------------------------------
(* SpecElite: Initialize and Step with elite counts up to and past the     *)
(* population size.                                                        *)

\* <<elite count, mutated elite count>> given to SetEliteCount and
\* SetMutatedEliteCount, which store any value.
EliteSettings ==
    {<<0, 0>>, <<2, 0>>, <<0, 2>>, <<2, 1>>, <<1, 2>>, <<3, 0>>, <<0, 3>>}

InitElite ==
    /\ pc = "new"
    /\ genome \in EngineGenomes
    /\ \E crossoverType \in CrossoverTypes, elites \in EliteSettings :
          ga = [NewGeneticAlgorithm EXCEPT
                  !.crossoverType = crossoverType,
                  !.eliteCount = elites[1],
                  !.mutatedEliteCount = elites[2]]
    /\ \E asserts \in BOOLEAN :
          args = [asserts |-> asserts, adjacent |-> <<0, 165>>, steps |-> 0]
    /\ population = [individuals_ |-> <<>>, partial_sums_ |-> <<>>, sorted_indices_ |-> <<>>,
                     is_sorted_ |-> FALSE]
    /\ ret = 0
    /\ bv = NewBitVector(0)
    /\ pre = bv
    /\ rhs = bv
    /\ offspring = bv

NextElite == CallInitialize \/ CallStep

SpecElite == InitElite /\ [][NextElite]_vars

\* C28: for every elite_count and mutated_elite_count, their sum above the
\* population size included, a Step writes the individuals at indices 0 ..
\* population_size - 1 of the new population only and reads ranks 0 ..
\* population_size - 1 of the previous one only, returns, and leaves both
\* populations with population_size individuals.
C28_StepStaysInsidePopulations ==
    pc \in {"Step", "fault"} =>
        /\ \A i \in StepWrites(ga) : i < ga.populationSize
        /\ \A i \in StepEliteReads(ga) : i < ga.populationSize
        /\ pc = "Step"
        /\ Len(ga.population) = ga.populationSize
        /\ Len(ga.lastGenerationPopulation) = ga.populationSize

\* C28, the failing input: population size 2, two elites and one mutated
\* elite.  The mutated elite is written through _population[2] and the
\* program stops.
C28_Witness ==
    /\ pc = "fault"
    /\ ga.populationSize = 2
    /\ ga.eliteCount = 2
    /\ ga.mutatedEliteCount = 1
    /\ 2 \in StepWrites(ga)
    /\ StepEliteReads(ga) = {0, 1}

\* C28, three elites: _lastGenerationPopulation[2] is read as well.
C28_WitnessRead ==
    /\ pc \in {"Step", "fault"}
    /\ ga.populationSize = 2
    /\ ga.eliteCount = 3
    /\ 2 \in StepEliteReads(ga)

\* C28 when elite_count + mutated_elite_count is at most the population
\* size: every index is inside the vectors, the Step returns and both
\* populations keep their size.
C28_InsideWhenElitesFit ==
    (/\ pc \in {"Step", "fault"}
     /\ ga.eliteCount + ga.mutatedEliteCount <= ga.populationSize)
    => /\ \A i \in StepWrites(ga) : i < ga.populationSize
       /\ \A i \in StepEliteReads(ga) : i < ga.populationSize
       /\ pc = "Step"
       /\ Len(ga.population) = ga.populationSize
       /\ Len(ga.lastGenerationPopulation) = ga.populationSize

---------------------------------------------------------------------------
(* SpecHex: FromStringHex into a BitVector that is new or was used before. *)

\* The indices of buffer FromStringHex reads: the loop runs over every byte
\* of bytes_ and byte i (from 1) is read at buffer + buffer_length - 2 * i.
FromStringHexReads(v, buffer) ==
    LET buffer_length == Len(buffer)
        sized == SetBitCount(v, (buffer_length \div 2) * BitsPerByte)
    IN  UNION {{buffer_length - 2 * i, buffer_length - 2 * i + 1} :
                  i \in DOMAIN sized.bytes_}

\* BitVector::FromStringHex on any BitVector.  Characters read before the
\* start of the buffer are whatever lies there: strtoul makes some byte of
\* them, |outside_byte|.
FromStringHexInto(v, buffer, outside_byte) ==
    LET buffer_length == Len(buffer)
        sized == SetBitCount(v, (buffer_length \div 2) * BitsPerByte)
    IN  [sized EXCEPT !.bytes_ =
            [i \in DOMAIN sized.bytes_ |->
                IF buffer_length - 2 * i >= 0
                THEN ParseHexByte(At(buffer, buffer_length - 2 * i),
                                  At(buffer, buffer_length - 2 * i + 1))
                ELSE outside_byte]]

\* The texts ToStringHex writes for the vectors under test, the text of one
\* byte, and two of odd length.
HexBuffers ==
    {ToStringHex(v, 0) : v \in TextVectors \ {NewBitVector(0)}}
    \cup {<<"a", "5">>, <<"f", "a", "5">>, <<"1", "0", "3", "c", "9">>}

\* The BitVector read into: new, or one that held up to MaxBits bits.
HexTargets ==
    {NewBitVector(0), NewBitVector(BitsPerByte),
     PatternVector(MaxBits - 8, PatternA, 0), PatternVector(MaxBits, PatternB, 0)}

InitHex ==
    /\ NoGeneticAlgorithm
    /\ pc = "init"
    /\ bv = NewBitVector(0)
    /\ rhs \in HexTargets
    /\ pre = rhs
    /\ ret \in HexBuffers
    /\ \E adjacent \in AdjacentBytes : args = [flips |-> 0, adjacent |-> adjacent]

\* rhs.FromStringHex(buffer, strlen(buffer)).  A read before the start of
\* the buffer stops the program or yields some characters.
CallFromStringHexInto ==
    /\ pc = "init"
    /\ Len(ret) >= 2
    /\ rhs' = FromStringHexInto(rhs, ret, args.adjacent[1])
    /\ pre' = rhs
    /\ \/ pc' = "FromStringHex"
       \/ /\ \E i \in FromStringHexReads(rhs, ret) : i < 0
          /\ pc' = "FromStringHexFault"
    /\ UNCHANGED <<args, bv, ret, gaVars>>

NextHex == CallFromStringHexInto

SpecHex == InitHex /\ [][NextHex]_vars

\* C30: FromStringHex(buffer, length) reads characters at indices 0 up to
\* length only and sets floor(length / 2) bytes, whatever the BitVector held
\* before: on one that held more bits than 8 * floor(length / 2) it returns
\* with the bit count and the bytes it gives a new BitVector.
C30_FromStringHexOnUsedVector ==
    pc \in {"FromStringHex", "FromStringHexFault"} =>
        LET fresh == FromStringHex(NewBitVector(0), ret)
        IN  /\ \A i \in FromStringHexReads(pre, ret) : i >= 0 /\ i < Len(ret)
            /\ Cardinality(FromStringHexReads(pre, ret)) = 2 * (Len(ret) \div 2)
            /\ pc = "FromStringHex"
            /\ rhs.bit_count_ = fresh.bit_count_
            /\ \A i \in DOMAIN fresh.bytes_ : rhs.bytes_[i] = fresh.bytes_[i]

\* C30, the failing input: "a5" read into a BitVector that held 24 bits.
\* The loop runs over 3 bytes and reads the characters at -2, -1, -4 and -3.
C30_Witness ==
    /\ pc = "FromStringHexFault"
    /\ pre.bit_count_ = MaxBits
    /\ Len(pre.bytes_) = 3
    /\ ret = <<"a", "5">>
    /\ -4 \in FromStringHexReads(pre, ret)

\* C30, the same when the program goes on: the first byte is 0xa5 and the
\* two bytes after it are made of what lies before the buffer.
C30_WitnessGoesOn ==
    /\ pc = "FromStringHex"
    /\ Len(pre.bytes_) = 3
    /\ ret = <<"a", "5">>
    /\ rhs.bit_count_ = BitsPerByte
    /\ rhs.bytes_ = <<165, 255, 255>>

\* C30 when the array of the BitVector holds at most floor(length / 2) bytes:
\* the reads are inside the buffer and the result is that of a new
\* BitVector; and whenever the call returns, the bits below the bit count
\* are those a new BitVector gets.
C30_FromStringHexWhenArrayFits ==
    /\ (pc \in {"FromStringHex", "FromStringHexFault"}
        /\ Len(pre.bytes_) <= Len(ret) \div 2)
       => /\ \A i \in FromStringHexReads(pre, ret) : i >= 0 /\ i < Len(ret)
          /\ pc = "FromStringHex"
          /\ rhs = FromStringHex(NewBitVector(0), ret)
    /\ pc = "FromStringHex"
       => /\ rhs.bit_count_ = BitsPerByte * (Len(ret) \div 2)
          /\ Equals(rhs, FromStringHex(NewBitVector(0), ret))

====
